---- MODULE Spec2Model ----
(***************************************************************************)
(* A model of github.com/codeallergy/value: the immutable value model, its *)
(* copy-on-write list and map family (on Go slices, with their backing     *)
(* arrays and capacities), and the MessagePack codec.                      *)
(***************************************************************************)
EXTENDS Integers, Sequences, FiniteSets, TLC

VARIABLES
    heap,       \* the backing arrays of all slices: a sequence of arrays of cells
    regs,       \* the collection values the program holds: register -> slice
    lastDst,    \* the register the last mutator call stored its result in
    lastOp,     \* name of the last mutator called
    lastArg,    \* its index argument (a list's index or key; 0 when it has none)
    absMap,     \* the finite function a Put/Remove chain is compared with
    cval,       \* the value given to Pack
    cbuf,       \* the MessagePack bytes: Pack's output, Unpack's input
    cres,       \* what Unpack returned: value and error
    cpc,        \* how far the codec scenario is: value, packed, unpacked
    wire,       \* the keys of the wire map that cbuf holds, in wire order
    todo,       \* the two orders in which the pairs are added to the two maps
    pos,        \* how many of its pairs each of the two maps has been given
    mode,       \* the mutator the two maps are built by: Put or Insert
    pc,         \* where each goroutine is in its call on the shared value
    pend,       \* the store into the shared array a goroutine is about to make
    perr,       \* the err field of the messagePacker (0: nil)
    failAt,     \* the number of the first Write call the writer fails
    wlog,       \* the Write calls made on the writer: the emit of each
    sent,       \* the values the test sends on the channel WriteStream reads
    sidx,       \* how many of them WriteStream has received
    sbuf,       \* the unread bytes of the bytes.Buffer the streams share
    srecv,      \* the values the test has received from ReadStream's channel
    spos,       \* where the test, WriteStream and ReadStream are
    shold       \* the value WriteStream and ReadStream hold, ReadStream's error

collVars == <<heap, regs, lastDst, lastOp, lastArg, absMap>>
codecVars == <<cval, cbuf, cres, cpc, wire>>
orderVars == <<todo, pos, mode>>
raceVars == <<pc, pend>>
packerVars == <<perr, failAt, wlog>>
streamVars == <<sent, sidx, sbuf, srecv, spos, shold>>

vars == <<collVars, codecVars, orderVars, raceVars, packerVars, streamVars>>

(***************************************************************************)
(* Bounds of the model.                                                    *)
(***************************************************************************)
MaxLen == 3         \* longest collection the mutators are applied to
MaxWire == 3        \* most entries of a wire map
MaxPairs == 2       \* most pairs added to a map in two orders
MaxWrites == 3      \* Write calls after which no further emit is called
MaxStream == 2      \* most values sent on a stream

(***************************************************************************)
(* Values.  Every value is a record of the same shape; k is the concrete   *)
(* Go type: "nil" is the Go nil interface, "null" the Null value.          *)
(***************************************************************************)
MkV(k, n, s, items) == [k |-> k, n |-> n, s |-> s, items |-> items]
NilV == MkV("nil", 0, <<>>, <<>>)
NullV == MkV("null", 0, <<>>, <<>>)
Boolean(b) == MkV("bool", IF b THEN 1 ELSE 0, <<>>, <<>>)
Long(n) == MkV("long", n, <<>>, <<>>)
Utf8(s) == MkV("utf8", 0, s, <<>>)

\* A cell of a backing array.  A solid list stores Values (ikey, skey
\* unused); a sparse list stores ListItems (ikey); a map stores MapEntries
\* (skey).  isnil marks the nil interface a fresh ListItem/MapEntry slot holds.
MkCell(isnil, ikey, skey, value) ==
    [isnil |-> isnil, ikey |-> ikey, skey |-> skey, value |-> value]
ValCell(v) == MkCell(FALSE, 0, <<>>, v)
Item(key, value) == MkCell(FALSE, key, <<>>, value)
Entry(key, value) == MkCell(FALSE, 0, key, value)
NilCell == MkCell(TRUE, 0, <<>>, NilV)

\* the zero value of one slot of an array of the given collection kind
ZeroCell(kind) == IF kind = "solid" THEN ValCell(NilV) ELSE NilCell

(***************************************************************************)
(* Strings are byte sequences; Go compares them bytewise.                  *)
(***************************************************************************)
RECURSIVE StrLess(_, _)
StrLess(a, b) ==
    IF b = <<>> THEN FALSE
    ELSE IF a = <<>> THEN TRUE
    ELSE IF Head(a) # Head(b) THEN Head(a) < Head(b)
    ELSE StrLess(Tail(a), Tail(b))

StrGeq(a, b) == ~StrLess(a, b)

(***************************************************************************)
(* Go slices.  A slice is a window [off+1 .. off+len] of a backing array;  *)
(* its capacity reaches to the end of the array.                           *)
(***************************************************************************)
MkSlice(kind, arr, off, len) == [kind |-> kind, arr |-> arr, off |-> off, len |-> len]
NoSlice == MkSlice("none", 0, 0, 0)

\* the empty singletons share one zero-capacity array (arr = 0: no array)
EmptySlice(kind) == MkSlice(kind, 0, 0, 0)

ArrOf(h, t) == IF t.arr = 0 THEN <<>> ELSE h[t.arr]
Cap(h, t) == Len(ArrOf(h, t)) - t.off
Elems(h, t) == [i \in 1..t.len |-> ArrOf(h, t)[t.off + i]]
At(h, t, i) == ArrOf(h, t)[t.off + i + 1]          \* t[i], i from 0

Res(h, t) == [h |-> h, t |-> t]

\* make([]T, len(cells)) filled with cells: a new array of exactly that size
Make(h, kind, cells) ==
    IF cells = <<>> THEN Res(h, EmptySlice(kind))
    ELSE Res(Append(h, cells), MkSlice(kind, Len(h) + 1, 0, Len(cells)))

\* t[lo:hi]
Reslice(t, lo, hi) == MkSlice(t.kind, t.arr, t.off + lo, hi - lo)

Pad(kind, n) == [i \in 1..n |-> ZeroCell(kind)]

\* The capacity of the array a growing append allocates is left to the
\* implementation: "exact" allocates what is needed, "double" doubles the
\* old capacity when that is more (the gc runtime's rule for small slices).
GrowPolicies == {"exact", "double"}
GrowCap(need, oldcap, sp) ==
    IF sp = "double" /\ 2 * oldcap > need THEN 2 * oldcap ELSE need

\* the builtin append(t, xs...): writes in place when the capacity allows,
\* otherwise copies into a new array
GoAppend(h, t, xs, sp) ==
    IF xs = <<>> THEN Res(h, t)
    ELSE IF t.len + Len(xs) <= Cap(h, t)
    THEN LET a == h[t.arr]
             a2 == [i \in 1..Len(a) |->
                      IF i > t.off + t.len /\ i <= t.off + t.len + Len(xs)
                      THEN xs[i - t.off - t.len] ELSE a[i]]
         IN Res([h EXCEPT ![t.arr] = a2], MkSlice(t.kind, t.arr, t.off, t.len + Len(xs)))
    ELSE LET need == t.len + Len(xs)
         IN Res(Append(h, Elems(h, t) \o xs
                          \o Pad(t.kind, GrowCap(need, Cap(h, t), sp) - need)),
                MkSlice(t.kind, Len(h) + 1, 0, need))

AllowFastAppends == TRUE

(***************************************************************************)
(* sort.Search(n, f): the smallest index in 0..n whose predicate holds,    *)
(* found by bisection; f is given as a function on 0..n-1.                 *)
(***************************************************************************)
RECURSIVE SearchLoop(_, _, _)
SearchLoop(f, i, j) ==
    IF i < j
    THEN LET m == (i + j) \div 2
         IN IF ~f[m] THEN SearchLoop(f, m + 1, j) ELSE SearchLoop(f, i, m)
    ELSE i

SortSearch(n, f) == SearchLoop(f, 0, n)

(***************************************************************************)
(* The solid list: solidListValue []Value.                                 *)
(***************************************************************************)
Solid_append(h, t, n, val, sp) ==
    IF n = 0 THEN Make(h, "solid", <<ValCell(val)>>)
    ELSE IF AllowFastAppends THEN GoAppend(h, t, <<ValCell(val)>>, sp)
    ELSE Make(h, "solid", Elems(h, t) \o <<ValCell(val)>>)

Solid_putAt(h, t, i, n, val) ==
    LET j == IF i + 1 < n THEN n ELSE i + 1
        old == Elems(h, t)
    IN Make(h, "solid",
            [p \in 1..j |-> IF p = i + 1 THEN ValCell(val)
                            ELSE IF p <= n THEN old[p] ELSE ValCell(NilV)])

\* insertAt whose fast branch for i+1 = n appends the value after t[i]
Solid_insertAt_after(h, t, i, n, val, sp) ==
    LET old == Elems(h, t)
    IN IF i = 0 THEN Make(h, "solid", <<ValCell(val)>> \o old)
       ELSE IF i + 1 = n
       THEN GoAppend(h, t, <<ValCell(val)>>, sp)
       ELSE Make(h, "solid", SubSeq(old, 1, i) \o <<ValCell(val)>> \o SubSeq(old, i + 1, n))

Solid_insertAt(h, t, i, n, val, sp) ==
    LET old == Elems(h, t)
    IN IF i = 0 THEN Make(h, "solid", <<ValCell(val)>> \o old)
       ELSE IF i + 1 = n
       THEN IF AllowFastAppends
            THEN GoAppend(h, Reslice(t, 0, i), <<ValCell(val), At(h, t, i)>>, sp)
            ELSE Make(h, "solid", SubSeq(old, 1, i) \o <<ValCell(val), old[n]>>)
       ELSE Make(h, "solid", SubSeq(old, 1, i) \o <<ValCell(val)>> \o SubSeq(old, i + 1, n))

Solid_removeAt(h, t, i, n, sp) ==
    LET old == Elems(h, t)
    IN IF i = 0 THEN Res(h, Reslice(t, 1, n))
       ELSE IF i + 1 = n THEN Res(h, Reslice(t, 0, i))
       ELSE IF AllowFastAppends
       THEN GoAppend(h, Reslice(t, 0, i), SubSeq(old, i + 2, n), sp)
       ELSE Make(h, "solid", SubSeq(old, 1, i) \o SubSeq(old, i + 2, n))

Solid_Append(h, t, val, sp) == Solid_append(h, t, t.len, val, sp)

Solid_PutAt(h, t, i, val, sp) ==
    LET n == t.len
    IN IF i >= 0
       THEN IF i = n THEN Solid_append(h, t, n, val, sp) ELSE Solid_putAt(h, t, i, n, val)
       ELSE Res(h, t)

Solid_InsertAt(h, t, i, val, sp) ==
    LET n == t.len
    IN IF i >= 0
       THEN IF i < n THEN Solid_insertAt(h, t, i, n, val, sp)
            ELSE Solid_append(h, t, n, val, sp)
       ELSE Res(h, t)

Solid_RemoveAt(h, t, i, sp) ==
    LET n == t.len
    IN IF i >= 0 /\ i < n THEN Solid_removeAt(h, t, i, n, sp) ELSE Res(h, t)

\* the caller's slice argument `list` is an array of its own, with no spare room
Solid_appendSlice(h, t, n, list, sp) ==
    IF n = 0 THEN Make(h, "solid", list)
    ELSE IF AllowFastAppends THEN GoAppend(h, t, list, sp)
    ELSE Make(h, "solid", Elems(h, t) \o list)

Solid_insertSliceAt(h, t, i, n, list, sp) ==
    LET old == Elems(h, t)
    IN IF i = 0
       THEN IF AllowFastAppends
            THEN LET a == Make(h, "solid", list) IN GoAppend(a.h, a.t, old, sp)
            ELSE Make(h, "solid", list \o old)
       ELSE Make(h, "solid", SubSeq(old, 1, i) \o list \o SubSeq(old, i + 1, n))

Solid_InsertAll(h, t, i, list, sp) ==
    LET n == t.len
    IN IF i >= 0
       THEN IF i < n THEN Solid_insertSliceAt(h, t, i, n, list, sp)
            ELSE Solid_appendSlice(h, t, n, list, sp)
       ELSE Res(h, t)

Solid_DeleteAll(h, t, i, sp) == Solid_RemoveAt(h, t, i, sp)

Solid_Len(t) == t.len

Solid_GetAt(h, t, i) == IF i >= 0 /\ i < t.len THEN At(h, t, i).value ELSE NilV


\* a slice built from nil by appending the cells one by one under policy spc
RECURSIVE AppendEach(_, _, _, _)
AppendEach(h, t, cells, spc) ==
    IF cells = <<>> THEN Res(h, t)
    ELSE LET r == GoAppend(h, t, <<Head(cells)>>, spc)
         IN AppendEach(r.h, r.t, Tail(cells), spc)

MakeCap(h, kind, cells, spc) == AppendEach(h, EmptySlice(kind), cells, spc)

(***************************************************************************)
(* The sparse list: sparseListValue []ListItem, sorted by integer key.     *)
(***************************************************************************)
FirstIndexKey == 0

Sparse_append(h, t, n, cell, sp) ==
    IF n = 0 THEN Make(h, "sparse", <<cell>>)
    ELSE IF AllowFastAppends THEN GoAppend(h, t, <<cell>>, sp)
    ELSE Make(h, "sparse", Elems(h, t) \o <<cell>>)

Sparse_replaceAt(h, t, i, n, cell) ==
    Make(h, "sparse", [p \in 1..n |-> IF p = i + 1 THEN cell ELSE Elems(h, t)[p]])

Sparse_insertAt(h, t, i, n, cell, sp) ==
    LET old == Elems(h, t)
    IN IF i = 0 THEN Make(h, "sparse", <<cell>> \o old)
       ELSE IF i + 1 = n
       THEN IF AllowFastAppends
            THEN GoAppend(h, Reslice(t, 0, i), <<cell, At(h, t, i)>>, sp)
            ELSE Make(h, "sparse", SubSeq(old, 1, i) \o <<cell, old[n]>>)
       ELSE Make(h, "sparse", SubSeq(old, 1, i) \o <<cell>> \o SubSeq(old, i + 1, n))

\* mutant: always drops the last item
Sparse_removeAt_last(h, t, i, n, sp) == Res(h, Reslice(t, 0, n - 1))

Sparse_removeAt(h, t, i, n, sp) ==
    LET old == Elems(h, t)
    IN IF i = 0 THEN Res(h, Reslice(t, 1, n))
       ELSE IF i + 1 = n THEN Res(h, Reslice(t, 0, i))
       ELSE IF AllowFastAppends
       THEN GoAppend(h, Reslice(t, 0, i), SubSeq(old, i + 2, n), sp)
       ELSE Make(h, "sparse", SubSeq(old, 1, i) \o SubSeq(old, i + 2, n))

\* slice is the array InsertAll built with append; spc is its spare capacity
Sparse_appendSlice(h, t, n, slice, spc, sp) ==
    IF n = 0 THEN MakeCap(h, "sparse", slice, spc)
    ELSE IF AllowFastAppends THEN GoAppend(h, t, slice, sp)
    ELSE Make(h, "sparse", Elems(h, t) \o slice)

Sparse_insertSliceAt(h, t, i, n, slice, spc, sp) ==
    LET old == Elems(h, t)
    IN IF i = 0
       THEN IF AllowFastAppends
            THEN LET a == MakeCap(h, "sparse", slice, spc) IN GoAppend(a.h, a.t, old, sp)
            ELSE Make(h, "sparse", slice \o old)
       ELSE Make(h, "sparse", SubSeq(old, 1, i) \o slice \o SubSeq(old, i + 1, n))

Sparse_removeSliceAt(h, t, i, cnt, n, sp) ==
    LET old == Elems(h, t)
    IN IF i = 0 THEN Res(h, Reslice(t, cnt, n))
       ELSE IF i + cnt = n THEN Res(h, Reslice(t, 0, i))
       ELSE IF AllowFastAppends
       THEN GoAppend(h, Reslice(t, 0, i), SubSeq(old, i + cnt + 1, n), sp)
       ELSE Make(h, "sparse", SubSeq(old, 1, i) \o SubSeq(old, i + cnt + 1, n))

\* sort.Search(n, func(i) { return t[i].Key() >= key })
Sparse_search(h, t, key) ==
    SortSearch(t.len, [i \in 0..(t.len - 1) |-> At(h, t, i).ikey >= key])

\* the length of the run of entries with this key that starts at index i
Sparse_run(h, t, i, key) ==
    LET stop == {j \in i..(t.len - 1) : At(h, t, j).ikey # key}
    IN IF stop = {} THEN t.len - i
       ELSE (CHOOSE j \in stop : \A j2 \in stop : j <= j2) - i

\* mutant: Len as the number of stored items
Sparse_Len_count(h, t) == t.len

Sparse_Len(h, t) == IF t.len = 0 THEN 0 ELSE At(h, t, t.len - 1).ikey + 1

Sparse_GetAt(h, t, key) ==
    LET n == t.len
        i == Sparse_search(h, t, key)
    IN IF i = n THEN NilV
       ELSE IF At(h, t, i).ikey = key THEN At(h, t, i).value
       ELSE NilV

Sparse_Append(h, t, value, sp) ==
    LET n == t.len
    IN IF n = 0 THEN Sparse_append(h, t, n, Item(FirstIndexKey, value), sp)
       ELSE Sparse_append(h, t, n, Item(At(h, t, n - 1).ikey + 1, value), sp)

Sparse_PutAt(h, t, key, value, sp) ==
    LET n == t.len
        i == Sparse_search(h, t, key)
    IN IF i = n THEN Sparse_append(h, t, n, Item(key, value), sp)
       ELSE IF At(h, t, i).ikey = key THEN Sparse_replaceAt(h, t, i, n, Item(key, value))
       ELSE Sparse_insertAt(h, t, i, n, Item(key, value), sp)

Sparse_InsertAt(h, t, key, value, sp) ==
    LET n == t.len
        i == Sparse_search(h, t, key)
    IN IF i = n THEN Sparse_append(h, t, n, Item(key, value), sp)
       ELSE Sparse_insertAt(h, t, i, n, Item(key, value), sp)

Sparse_RemoveAt(h, t, key, sp) ==
    LET n == t.len
        i == Sparse_search(h, t, key)
    IN IF i = n THEN Res(h, t)
       ELSE IF At(h, t, i).ikey = key THEN Sparse_removeAt(h, t, i, n, sp)
       ELSE Res(h, t)

Sparse_InsertAll(h, t, key, list, spc, sp) ==
    IF Len(list) = 0 THEN Res(h, t)
    ELSE LET slice == [j \in 1..Len(list) |-> Item(key, list[j])]
             n == t.len
             i == Sparse_search(h, t, key)
         IN IF i = n THEN Sparse_appendSlice(h, t, n, slice, spc, sp)
            ELSE Sparse_insertSliceAt(h, t, i, n, slice, spc, sp)

Sparse_DeleteAll(h, t, key, sp) ==
    LET n == t.len
        i == Sparse_search(h, t, key)
    IN IF i = n THEN Res(h, t)
       ELSE Sparse_removeSliceAt(h, t, i, Sparse_run(h, t, i, key), n, sp)

(***************************************************************************)
(* The sorted map: sortedMapValue []MapEntry, sorted by string key.        *)
(***************************************************************************)

Map_append(h, t, n, cell, sp) ==
    IF n = 0 THEN Make(h, "map", <<cell>>)
    ELSE IF AllowFastAppends THEN GoAppend(h, t, <<cell>>, sp)
    ELSE Make(h, "map", Elems(h, t) \o <<cell>>)

\* mutant: a replace that keeps the old entry
Map_replaceAt_keep(h, t, i, n, cell) == Make(h, "map", Elems(h, t))

Map_replaceAt(h, t, i, n, cell) ==
    Make(h, "map", [p \in 1..n |-> IF p = i + 1 THEN cell ELSE Elems(h, t)[p]])

\* mutant: an insert that puts the entry at the end
Map_insertAt_end(h, t, i, n, cell, sp) == Map_append(h, t, n, cell, sp)

Map_insertAt(h, t, i, n, cell, sp) ==
    LET old == Elems(h, t)
    IN IF i = 0 THEN Make(h, "map", <<cell>> \o old)
       ELSE IF i + 1 = n
       THEN IF AllowFastAppends
            THEN GoAppend(h, Reslice(t, 0, i), <<cell, At(h, t, i)>>, sp)
            ELSE Make(h, "map", SubSeq(old, 1, i) \o <<cell, old[n]>>)
       ELSE Make(h, "map", SubSeq(old, 1, i) \o <<cell>> \o SubSeq(old, i + 1, n))

Map_removeAt(h, t, i, n, sp) ==
    LET old == Elems(h, t)
    IN IF i = 0 THEN Res(h, Reslice(t, 1, n))
       ELSE IF i + 1 = n THEN Res(h, Reslice(t, 0, i))
       ELSE IF AllowFastAppends
       THEN GoAppend(h, Reslice(t, 0, i), SubSeq(old, i + 2, n), sp)
       ELSE Make(h, "map", SubSeq(old, 1, i) \o SubSeq(old, i + 2, n))

\* slice is the array InsertAll built with append; spc is its spare capacity
Map_appendSlice(h, t, n, slice, spc, sp) ==
    IF n = 0 THEN MakeCap(h, "map", slice, spc)
    ELSE IF AllowFastAppends THEN GoAppend(h, t, slice, sp)
    ELSE Make(h, "map", Elems(h, t) \o slice)

Map_insertSliceAt(h, t, i, n, slice, spc, sp) ==
    LET old == Elems(h, t)
    IN IF i = 0
       THEN IF AllowFastAppends
            THEN LET a == MakeCap(h, "map", slice, spc) IN GoAppend(a.h, a.t, old, sp)
            ELSE Make(h, "map", slice \o old)
       ELSE Make(h, "map", SubSeq(old, 1, i) \o slice \o SubSeq(old, i + 1, n))

Map_removeSliceAt(h, t, i, cnt, n, sp) ==
    LET old == Elems(h, t)
    IN IF i = 0 THEN Res(h, Reslice(t, cnt, n))
       ELSE IF i + cnt = n THEN Res(h, Reslice(t, 0, i))
       ELSE IF AllowFastAppends
       THEN GoAppend(h, Reslice(t, 0, i), SubSeq(old, i + cnt + 1, n), sp)
       ELSE Make(h, "map", SubSeq(old, 1, i) \o SubSeq(old, i + cnt + 1, n))

\* sort.Search(n, func(i) { return t[i].Key() >= key })
\* mutant: a search that always answers the first index
Map_search_first(h, t, key) == 0

Map_search(h, t, key) ==
    SortSearch(t.len, [i \in 0..(t.len - 1) |-> StrGeq(At(h, t, i).skey, key)])

\* the length of the run of entries with this key that starts at index i
Map_run(h, t, i, key) ==
    LET stop == {j \in i..(t.len - 1) : At(h, t, j).skey # key}
    IN IF stop = {} THEN t.len - i
       ELSE (CHOOSE j \in stop : \A j2 \in stop : j <= j2) - i

Map_Len(t) == t.len

\* Get returns the value and whether the key was found
Map_Get(h, t, key) ==
    LET n == t.len
        i == Map_search(h, t, key)
    IN IF i = n THEN [value |-> NilV, ok |-> FALSE]
       ELSE IF At(h, t, i).skey = key THEN [value |-> At(h, t, i).value, ok |-> TRUE]
       ELSE [value |-> NilV, ok |-> FALSE]

Map_Insert(h, t, key, value, sp) ==
    LET n == t.len
        i == Map_search(h, t, key)
    IN IF i = n THEN Map_append(h, t, n, Entry(key, value), sp)
       ELSE Map_insertAt(h, t, i, n, Entry(key, value), sp)

Map_Put(h, t, key, value, sp) ==
    LET n == t.len
        i == Map_search(h, t, key)
    IN IF i = n THEN Map_append(h, t, n, Entry(key, value), sp)
       ELSE IF At(h, t, i).skey = key THEN Map_replaceAt(h, t, i, n, Entry(key, value))
       ELSE Map_insertAt(h, t, i, n, Entry(key, value), sp)

\* Remove that takes out every entry with the key
Map_Remove_all(h, t, key, sp) ==
    LET n == t.len
        i == Map_search(h, t, key)
    IN IF i = n THEN Res(h, t)
       ELSE IF At(h, t, i).skey = key
       THEN Map_removeSliceAt(h, t, i, Map_run(h, t, i, key), n, sp)
       ELSE Res(h, t)

Map_Remove(h, t, key, sp) ==
    LET n == t.len
        i == Map_search(h, t, key)
    IN IF i = n THEN Res(h, t)
       ELSE IF At(h, t, i).skey = key THEN Map_removeAt(h, t, i, n, sp)
       ELSE Res(h, t)

Map_InsertAll(h, t, key, list, spc, sp) ==
    IF Len(list) = 0 THEN Res(h, t)
    ELSE LET slice == [j \in 1..Len(list) |-> Entry(key, list[j])]
             n == t.len
             i == Map_search(h, t, key)
         IN IF i = n THEN Map_appendSlice(h, t, n, slice, spc, sp)
            ELSE Map_insertSliceAt(h, t, i, n, slice, spc, sp)

Map_DeleteAll(h, t, key, sp) ==
    LET n == t.len
        i == Map_search(h, t, key)
    IN IF i = n THEN Res(h, t)
       ELSE Map_removeSliceAt(h, t, i, Map_run(h, t, i, key), n, sp)


(***************************************************************************)
(* The values the program holds.  A mutator call reads one held value and  *)
(* stores its result in a register; arrays no held value refers to are     *)
(* reclaimed.                                                              *)
(***************************************************************************)
Regs == {1, 2, 3}
Vals == {Long(1), Long(2)}
\* elements handed to the solid list calls: a value or the Go nil interface
ElemVals == Vals \cup {NilV}
SVals == {Long(1)}
SKeys == {<<97>>, <<97, 98>>, <<98>>}          \* "a", "ab", "b"
IKeys == {5, 7, 9}
Spares == GrowPolicies
ListArgs == {<<>>, <<Long(1)>>, <<Long(2), Long(1)>>}
CellsOf(list) == [j \in 1..Len(list) |-> ValCell(list[j])]

Live(rg) == {rg[r].arr : r \in Regs} \ {0}
Rank(live, a) == Cardinality({b \in live : b <= a})

\* Reclaiming memory: arrays no held slice refers to are dropped, the slots
\* before the first held window are cut off, and a slot outside every held
\* window (which no call reads before writing it) is cleared.
Low(rg, a) ==
    LET offs == {rg[r].off : r \in {q \in Regs : rg[q].arr = a}}
    IN CHOOSE o \in offs : \A o2 \in offs : o <= o2
Covered(rg, a, p) ==
    \E r \in Regs : rg[r].arr = a /\ p > rg[r].off /\ p <= rg[r].off + rg[r].len
Compact(h, rg) ==
    LET live == Live(rg)
        src(i) == CHOOSE a \in live : Rank(live, a) = i
    IN [h |-> [i \in 1..Cardinality(live) |->
                 LET a == src(i)
                     lo == Low(rg, a)
                 IN [p \in 1..(Len(h[a]) - lo) |->
                       IF Covered(rg, a, p + lo) THEN h[a][p + lo]
                       ELSE ZeroCell(rg[CHOOSE r \in Regs : rg[r].arr = a].kind)]],
        regs |-> [r \in Regs |->
                    IF rg[r].arr = 0 THEN rg[r]
                    ELSE MkSlice(rg[r].kind, Rank(live, rg[r].arr),
                                 rg[r].off - Low(rg, rg[r].arr), rg[r].len)]]

View(h, t) == Elems(h, t)

(***************************************************************************)
(* The parts of the state a scenario does not use stay as they start.      *)
(***************************************************************************)
Callers == {2, 3}
NoResult == [v |-> NilV, err |-> "none"]
NoPend == [t |-> NoSlice, slot |-> 0, cell |-> NilCell]

IdleColl ==
    /\ heap = <<>>
    /\ regs = [r \in Regs |-> NoSlice]
    /\ lastDst = 1
    /\ lastOp = "none"
    /\ lastArg = 0
    /\ absMap = [k \in SKeys |-> NilV]
IdleCodec == cval = NilV /\ cbuf = <<>> /\ cres = NoResult /\ cpc = "idle" /\ wire = <<>>
IdleOrder == todo = [r \in {1, 2} |-> <<>>] /\ pos = [r \in {1, 2} |-> 0] /\ mode = "none"
IdleRace == pc = [g \in Callers |-> "idle"] /\ pend = [g \in Callers |-> NoPend]
IdlePacker == perr = 0 /\ failAt = 0 /\ wlog = <<>>
IdleStream ==
    /\ sent = <<>> /\ sidx = 0 /\ sbuf = <<>> /\ srecv = <<>>
    /\ spos = [test |-> "idle", ws |-> "idle", rs |-> "idle"]
    /\ shold = [ws |-> NilV, rs |-> NilV, err |-> "none"]

\* the call src.op(...) returned r, which the caller keeps in register dst
Store(src, dst, r, op, arg) ==
    /\ r.t.len <= MaxLen
    /\ LET c == Compact(r.h, [regs EXCEPT ![dst] = r.t])
       IN heap' = c.h /\ regs' = c.regs
    /\ lastDst' = dst
    /\ lastOp' = op
    /\ lastArg' = arg
    /\ UNCHANGED <<codecVars, orderVars, raceVars, packerVars, streamVars>>

InitColl(kind) ==
    /\ heap = <<>>
    /\ regs = [r \in Regs |-> IF r = 1 THEN EmptySlice(kind) ELSE NoSlice]
    /\ lastDst = 1
    /\ lastOp = "none"
    /\ lastArg = 0
    /\ absMap = [k \in SKeys |-> NilV]
    /\ IdleCodec /\ IdleOrder /\ IdleRace /\ IdlePacker /\ IdleStream

\* solid list calls
SolidAppend(src, dst) ==
    \E v \in ElemVals, sp \in Spares :
        /\ regs[src].kind = "solid"
        /\ Store(src, dst, Solid_Append(heap, regs[src], v, sp), "Append", 0)
        /\ UNCHANGED absMap
SolidPutAt(src, dst) ==
    \E i \in -1..MaxLen, v \in ElemVals, sp \in Spares :
        /\ regs[src].kind = "solid"
        /\ Store(src, dst, Solid_PutAt(heap, regs[src], i, v, sp), "PutAt", i)
        /\ UNCHANGED absMap
SolidInsertAt(src, dst) ==
    \E i \in -1..MaxLen, v \in ElemVals, sp \in Spares :
        /\ regs[src].kind = "solid"
        /\ Store(src, dst, Solid_InsertAt(heap, regs[src], i, v, sp), "InsertAt", i)
        /\ UNCHANGED absMap
SolidRemoveAt(src, dst) ==
    \E i \in -1..MaxLen, sp \in Spares :
        /\ regs[src].kind = "solid"
        /\ Store(src, dst, Solid_RemoveAt(heap, regs[src], i, sp), "RemoveAt", i)
        /\ UNCHANGED absMap
SolidInsertAll(src, dst) ==
    \E i \in -1..MaxLen, list \in ListArgs, sp \in Spares :
        /\ regs[src].kind = "solid"
        /\ Store(src, dst, Solid_InsertAll(heap, regs[src], i, CellsOf(list), sp),
                 "InsertAll", i)
        /\ UNCHANGED absMap
SolidDeleteAll(src, dst) ==
    \E i \in -1..MaxLen, sp \in Spares :
        /\ regs[src].kind = "solid"
        /\ Store(src, dst, Solid_DeleteAll(heap, regs[src], i, sp), "DeleteAll", i)
        /\ UNCHANGED absMap

\* sparse list calls
SparseAppend(src, dst) ==
    \E v \in SVals, sp \in Spares :
        /\ regs[src].kind = "sparse"
        /\ Store(src, dst, Sparse_Append(heap, regs[src], v, sp), "Append", 0)
        /\ UNCHANGED absMap
SparsePutAt(src, dst) ==
    \E k \in IKeys, v \in SVals, sp \in Spares :
        /\ regs[src].kind = "sparse"
        /\ Store(src, dst, Sparse_PutAt(heap, regs[src], k, v, sp), "PutAt", k)
        /\ UNCHANGED absMap
SparseInsertAt(src, dst) ==
    \E k \in IKeys, v \in SVals, sp \in Spares :
        /\ regs[src].kind = "sparse"
        /\ Store(src, dst, Sparse_InsertAt(heap, regs[src], k, v, sp), "InsertAt", k)
        /\ UNCHANGED absMap
SparseRemoveAt(src, dst) ==
    \E k \in IKeys, sp \in Spares :
        /\ regs[src].kind = "sparse"
        /\ Store(src, dst, Sparse_RemoveAt(heap, regs[src], k, sp), "RemoveAt", k)
        /\ UNCHANGED absMap
SparseInsertAll(src, dst) ==
    \E k \in IKeys, list \in ListArgs, spc \in Spares, sp \in Spares :
        /\ regs[src].kind = "sparse"
        /\ Store(src, dst, Sparse_InsertAll(heap, regs[src], k, list, spc, sp),
                 "InsertAll", k)
        /\ UNCHANGED absMap
SparseDeleteAll(src, dst) ==
    \E k \in IKeys, sp \in Spares :
        /\ regs[src].kind = "sparse"
        /\ Store(src, dst, Sparse_DeleteAll(heap, regs[src], k, sp), "DeleteAll", k)
        /\ UNCHANGED absMap

\* map calls; absMap follows Put and Remove as the finite function they
\* are meant to implement, and is reset to what Get answers by the calls
\* that can store a key twice
GetAll(h, t) ==
    [k \in SKeys |-> IF Map_Get(h, t, k).ok THEN Map_Get(h, t, k).value ELSE NilV]
MapPut(src, dst) ==
    \E k \in SKeys, v \in Vals, sp \in Spares :
        /\ regs[src].kind = "map"
        /\ Store(src, dst, Map_Put(heap, regs[src], k, v, sp), "Put", 0)
        /\ absMap' = [absMap EXCEPT ![k] = v]
MapRemove(src, dst) ==
    \E k \in SKeys, sp \in Spares :
        /\ regs[src].kind = "map"
        /\ Store(src, dst, Map_Remove(heap, regs[src], k, sp), "Remove", k)
        /\ absMap' = [absMap EXCEPT ![k] = NilV]
MapInsert(src, dst) ==
    \E k \in SKeys, v \in Vals, sp \in Spares :
        /\ regs[src].kind = "map"
        /\ Store(src, dst, Map_Insert(heap, regs[src], k, v, sp), "Insert", 0)
        /\ absMap' = GetAll(heap', regs'[dst])
MapInsertAll(src, dst) ==
    \E k \in SKeys, list \in ListArgs, spc \in Spares, sp \in Spares :
        /\ regs[src].kind = "map"
        /\ Store(src, dst, Map_InsertAll(heap, regs[src], k, list, spc, sp),
                 "InsertAll", 0)
        /\ absMap' = GetAll(heap', regs'[dst])
MapDeleteAll(src, dst) ==
    \E k \in SKeys, sp \in Spares :
        /\ regs[src].kind = "map"
        /\ Store(src, dst, Map_DeleteAll(heap, regs[src], k, sp), "DeleteAll", 0)
        /\ absMap' = GetAll(heap', regs'[dst])

(***************************************************************************)
(* SpecCow: a list or map is built by Append, PutAt or Put; then one       *)
(* mutator is called on it and its result is kept beside the receiver.     *)
(***************************************************************************)
InitCow == \E kind \in {"solid", "sparse", "map"} : InitColl(kind)

BuildCow ==
    /\ regs[2] = NoSlice
    /\ \/ SolidAppend(1, 1)
       \/ SparsePutAt(1, 1)
       \/ MapPut(1, 1)

DeriveCow ==
    /\ regs[2] = NoSlice
    /\ \/ SolidAppend(1, 2)
       \/ SolidPutAt(1, 2)
       \/ SolidInsertAt(1, 2)
       \/ SolidRemoveAt(1, 2)
       \/ SolidInsertAll(1, 2)
       \/ SolidDeleteAll(1, 2)
       \/ SparseAppend(1, 2)
       \/ SparsePutAt(1, 2)
       \/ SparseInsertAt(1, 2)
       \/ SparseRemoveAt(1, 2)
       \/ SparseInsertAll(1, 2)
       \/ SparseDeleteAll(1, 2)
       \/ MapPut(1, 2)
       \/ MapRemove(1, 2)
       \/ MapInsert(1, 2)
       \/ MapInsertAll(1, 2)
       \/ MapDeleteAll(1, 2)

NextCow == BuildCow \/ DeriveCow

SpecCow == InitCow /\ [][NextCow]_vars

(***************************************************************************)
(* SpecMapChain: a chain of map calls from EmptyMap, each applied to the   *)
(* result of the previous call.                                            *)
(***************************************************************************)
InitMapChain == InitColl("map")

NextMapChain ==
    \/ MapPut(1, 1)
    \/ MapRemove(1, 1)
    \/ MapInsert(1, 1)
    \/ MapInsertAll(1, 1)
    \/ MapDeleteAll(1, 1)

SpecMapChain == InitMapChain /\ [][NextMapChain]_vars

(***************************************************************************)
(* SpecPutRemove: a chain of Put and Remove calls from EmptyMap.           *)
(***************************************************************************)
NextPutRemove ==
    \/ MapPut(1, 1)
    \/ MapRemove(1, 1)

SpecPutRemove == InitMapChain /\ [][NextPutRemove]_vars

(***************************************************************************)
(* SpecSparseChain: a chain of sparse-list calls from EmptySparseList.     *)
(***************************************************************************)
InitSparseChain == InitColl("sparse")

NextSparseChain ==
    \/ SparseAppend(1, 1)
    \/ SparsePutAt(1, 1)
    \/ SparseInsertAt(1, 1)
    \/ SparseRemoveAt(1, 1)
    \/ SparseInsertAll(1, 1)
    \/ SparseDeleteAll(1, 1)

SpecSparseChain == InitSparseChain /\ [][NextSparseChain]_vars

(***************************************************************************)
(* SpecSolidChain: a chain of solid-list calls from EmptyList, each        *)
(* applied to the result of the previous call.                             *)
(***************************************************************************)
InitSolidChain == InitColl("solid")

NextSolidChain ==
    \/ SolidAppend(1, 1)
    \/ SolidPutAt(1, 1)
    \/ SolidInsertAt(1, 1)
    \/ SolidRemoveAt(1, 1)
    \/ SolidInsertAll(1, 1)
    \/ SolidDeleteAll(1, 1)

SpecSolidChain == InitSolidChain /\ [][NextSolidChain]_vars

(***************************************************************************)
(* MessagePack codes.                                                      *)
(***************************************************************************)
mpPosFixIntMax == 127
mpFixMapMin == 128
mpFixMapMax == 143
mpFixArrayMin == 144
mpFixArrayMax == 159
mpFixStrMin == 160
mpFixStrMax == 191
mpFixMapPrefix == 128
mpFixArrayPrefix == 144
mpFixStrPrefix == 160
mpNil == 192
mpFalse == 194
mpTrue == 195
mpBin8 == 196
mpBin16 == 197
mpBin32 == 198
mpExt8 == 199
mpExt16 == 200
mpExt32 == 201
mpFloat32 == 202
mpFloat64 == 203
mpUint8 == 204
mpUint16 == 205
mpUint32 == 206
mpUint64 == 207
mpInt8 == 208
mpInt16 == 209
mpInt32 == 210
mpInt64 == 211
mpFixExt1 == 212
mpFixExt2 == 213
mpFixExt4 == 214
mpFixExt8 == 215
mpFixExt16 == 216
mpStr8 == 217
mpStr16 == 218
mpStr32 == 219
mpArray16 == 220
mpArray32 == 221
mpMap16 == 222
mpMap32 == 223
mpCodeMin == 192
mpCodeMax == 223
mpNegFixIntMin == 224
BigIntExt == 1
DecimalExt == 2

\* binary.BigEndian.PutUintN / UintN on w bytes
RECURSIVE BE(_, _)
BE(n, w) == IF w = 0 THEN <<>> ELSE BE(n \div 256, w - 1) \o <<n % 256>>

RECURSIVE FromBE(_)
FromBE(b) ==
    IF b = <<>> THEN 0 ELSE FromBE(SubSeq(b, 1, Len(b) - 1)) * 256 + b[Len(b)]

\* uintN(val) of a negative val, on w bytes (two's complement)
Twos(val, w) ==
    LET low == BE(val + 2147483647 + 1, 4)
        b32 == <<low[1] + 128>> \o Tail(low)
    IN IF w = 4 THEN b32 ELSE SubSeq(b32, 5 - w, 4)

\* intN(b) of Len(b) <= 4 bytes read as a signed number
Signed(b) ==
    IF b[1] < 128 THEN FromBE(b)
    ELSE (FromBE(<<b[1] - 128>> \o Tail(b))
          - FromBE(<<127>> \o [i \in 1..(Len(b) - 1) |-> 255])) - 1

(***************************************************************************)
(* Doubles are kept as their eight IEEE-754 bytes.                         *)
(***************************************************************************)
Double(bits) == MkV("double", 0, bits, <<>>)
Bits1_5 == <<63, 248, 0, 0, 0, 0, 0, 0>>          \* 1.5
BitsNaN == <<127, 248, 0, 0, 0, 0, 0, 1>>         \* math.NaN()
BitsInf == <<127, 240, 0, 0, 0, 0, 0, 0>>         \* math.Inf(1)

ExpAllOnes(bits) == bits[1] % 128 = 127 /\ bits[2] >= 240
MantissaZero(bits) == bits[2] % 16 = 0 /\ \A i \in 3..8 : bits[i] = 0
IsNaN(bits) == ExpAllOnes(bits) /\ ~MantissaZero(bits)

\* The finite doubles of the model are the multiples of one half below 4096,
\* converted to and from their IEEE-754 bytes.
Fill(n, x) == [i \in 1..n |-> x]

RECURSIVE Pow2(_)
Pow2(n) == IF n = 0 THEN 1 ELSE 2 * Pow2(n - 1)

\* the bytes of the float64 h / 2
DoubleOf(h) ==
    IF h = 0 THEN Fill(8, 0)
    ELSE LET m == IF h < 0 THEN -h ELSE h
             p == CHOOSE q \in 0..12 : Pow2(q) <= m /\ m < Pow2(q + 1)
             e == 1023 + p - 1
             f == (m - Pow2(p)) * Pow2(12 - p)
         IN <<(IF h < 0 THEN 128 ELSE 0) + (e \div 16), (e % 16) * 16 + (f \div 256),
              f % 256, 0, 0, 0, 0, 0>>

\* the number of halves of a finite double of the model
HalvesOf(bits) ==
    IF bits = Fill(8, 0) THEN 0
    ELSE LET e == (bits[1] % 128) * 16 + (bits[2] \div 16)
             f == (bits[2] % 16) * 256 + bits[3]
             p == e - 1022
             m == Pow2(p) + (f \div Pow2(12 - p))
         IN IF bits[1] >= 128 THEN -m ELSE m

\* int64(d): the double truncated towards zero; 0 for NaN
DoubleLong(bits) ==
    IF IsNaN(bits) THEN 0
    ELSE LET h == HalvesOf(bits) IN IF h < 0 THEN -((-h) \div 2) ELSE h \div 2

\* math.Abs(a - b) < PrecisionLevel for doubles given by their bytes: the
\* difference of an infinity or a NaN with anything is not below the level;
\* two finite doubles of the model are closer than the level only when equal
DoubleClose(a, b) == ~ExpAllOnes(a) /\ ~ExpAllOnes(b) /\ a = b

BigInt(n) == MkV("bigint", n, <<>>, <<>>)
Raw(b) == MkV("raw", 0, b, <<>>)
Unknown(tagAndData) == MkV("unknown", 0, tagAndData, <<>>)
SolidList(cells) == MkV("solid", 0, <<>>, cells)
SortedSparseList(cells) == MkV("sparse", 0, <<>>, cells)
MapOf(cells) == MkV("map", 0, <<>>, cells)
EmptyList == SolidList(<<>>)
EmptySparseList == SortedSparseList(<<>>)
EmptyMap == MapOf(<<>>)

Kind(v) ==
    CASE v.k = "null" -> "NULL"
      [] v.k = "bool" -> "BOOL"
      [] v.k \in {"long", "double", "bigint"} -> "NUMBER"
      [] v.k \in {"utf8", "raw"} -> "STRING"
      [] v.k \in {"solid", "sparse"} -> "LIST"
      [] v.k = "map" -> "MAP"
      [] v.k = "unknown" -> "UNKNOWN"

\* big.Int.GobEncode: a version-and-sign byte, then the magnitude
RECURSIVE Magnitude(_)
Magnitude(n) == IF n = 0 THEN <<>> ELSE Magnitude(n \div 256) \o <<n % 256>>
GobEncode(n) == IF n < 0 THEN <<3>> \o Magnitude(-n) ELSE <<2>> \o Magnitude(n)

\* big.Int.GobDecode: empty input is zero; another version is an error
UnpackBigInt(data) ==
    IF data = <<>> THEN [v |-> 0, err |-> "nil"]
    ELSE IF data[1] \div 2 # 1 THEN [v |-> 0, err |-> "gob"]
    ELSE [v |-> IF data[1] % 2 = 1 THEN -FromBE(Tail(data)) ELSE FromBE(Tail(data)),
          err |-> "nil"]

(***************************************************************************)
(* messageWriter: the bytes of each token.                                 *)
(***************************************************************************)
WriteNil == <<mpNil>>
WriteBool(val) == IF val THEN <<mpTrue>> ELSE <<mpFalse>>

\* (values above MaxUint32 are outside the integers of the model)
\* writeVULong without the one-byte form
writeVULong_noFix(val) ==
    IF val <= 255 THEN <<mpUint8, val>>
    ELSE IF val <= 65535 THEN <<mpUint16>> \o BE(val, 2)
    ELSE <<mpUint32>> \o BE(val, 4)

writeVULong(val) ==
    IF val <= 127 THEN <<val>>
    ELSE IF val <= 255 THEN <<mpUint8, val>>
    ELSE IF val <= 65535 THEN <<mpUint16>> \o BE(val, 2)
    ELSE <<mpUint32>> \o BE(val, 4)

\* (values below MinInt32 are outside the integers of the model)
WriteLong(val) ==
    IF val >= 0 THEN writeVULong(val)
    ELSE IF val >= -32 THEN <<256 + val>>
    ELSE IF val >= -128 THEN <<mpInt8, 256 + val>>
    ELSE IF val >= -32768 THEN <<mpInt16>> \o Twos(val, 2)
    ELSE <<mpInt32>> \o Twos(val, 4)

WriteDouble(bits) == <<mpFloat64>> \o bits

WriteBinHeader(len) ==
    IF len <= 255 THEN <<mpBin8, len>>
    ELSE IF len <= 65535 THEN <<mpBin16>> \o BE(len, 2)
    ELSE <<mpBin32>> \o BE(len, 4)

WriteStrHeader(len) ==
    IF len < 32 THEN <<mpFixStrPrefix + len>>
    ELSE IF len <= 255 THEN <<mpStr8, len>>
    ELSE IF len <= 65535 THEN <<mpStr16>> \o BE(len, 2)
    ELSE <<mpStr32>> \o BE(len, 4)

WriteExtHeader(len, xtag) ==
    CASE len = 1 -> <<mpFixExt1, xtag>>
      [] len = 2 -> <<mpFixExt2, xtag>>
      [] len = 4 -> <<mpFixExt4, xtag>>
      [] len = 8 -> <<mpFixExt8, xtag>>
      [] len = 16 -> <<mpFixExt16, xtag>>
      [] OTHER -> IF len < 256 THEN <<mpExt8, len, xtag>>
                  ELSE IF len < 65536 THEN <<mpExt16>> \o BE(len, 2) \o <<xtag>>
                  ELSE <<mpExt32>> \o BE(len, 4) \o <<xtag>>

WriteArrayHeader(len) ==
    IF len < 16 THEN <<mpFixArrayPrefix + len>>
    ELSE IF len <= 65535 THEN <<mpArray16>> \o BE(len, 2)
    ELSE <<mpArray16>> \o BE(len, 4)

WriteMapHeader(len) ==
    IF len < 16 THEN <<mpFixMapPrefix + len>>
    ELSE IF len <= 65535 THEN <<mpMap16>> \o BE(len, 2)
    ELSE <<mpMap32>> \o BE(len, 4)

(***************************************************************************)
(* Value.Pack through a messagePacker over a bytes.Buffer, whose Write     *)
(* never fails: the bytes of a value.                                      *)
(***************************************************************************)
\* The packer's methods write: PackStr and PackBin the header and the
\* bytes, PackExt the header and the data, PackList and PackMap the header
\* of the size.
RECURSIVE PackValue(_), PackEntries(_, _)
\* Pack of a value; a nil value or element is packed by PackNil
\* (Unknown needs a tag byte: Tag() of an empty Unknown panics)
PackValue(v) ==
    CASE v.k \in {"nil", "null"} -> WriteNil
      [] v.k = "bool" -> WriteBool(v.n = 1)
      [] v.k = "long" -> WriteLong(v.n)
      [] v.k = "double" -> WriteDouble(v.s)
      [] v.k = "bigint" ->
           WriteExtHeader(Len(GobEncode(v.n)), BigIntExt) \o GobEncode(v.n)
      [] v.k = "utf8" -> WriteStrHeader(Len(v.s)) \o v.s
      [] v.k = "raw" -> WriteBinHeader(Len(v.s)) \o v.s
      [] v.k = "unknown" -> WriteExtHeader(Len(Tail(v.s)), Head(v.s)) \o Tail(v.s)
      [] v.k = "solid" ->
           WriteArrayHeader(Len(v.items)) \o PackEntries("solid", v.items)
      [] v.k = "sparse" ->
           WriteMapHeader(Len(v.items)) \o PackEntries("sparse", v.items)
      [] v.k = "map" ->
           WriteMapHeader(Len(v.items)) \o PackEntries("map", v.items)

PackEntries(kind, cells) ==
    IF cells = <<>> THEN <<>>
    ELSE LET c == Head(cells)
             key == IF kind = "sparse" THEN WriteLong(c.ikey)
                    ELSE IF kind = "map" THEN WriteStrHeader(Len(c.skey)) \o c.skey
                    ELSE <<>>
         IN key \o PackValue(c.value) \o PackEntries(kind, Tail(cells))

Pack(val) == [b |-> PackValue(val), err |-> "nil"]

(***************************************************************************)
(* messageBufUnpacker and messageParser.                                   *)
(***************************************************************************)
mpCodeFormat(code) ==
    CASE code \in {192, 193} -> "NilToken"
      [] code \in {194, 195} -> "BoolToken"
      [] code \in 196..198 -> "BinHeader"
      [] code \in 199..201 -> "ExtHeader"
      [] code \in 202..203 -> "DoubleToken"
      [] code \in 204..211 -> "LongToken"
      [] code \in 212..216 -> "FixExtToken"
      [] code \in 217..219 -> "StrHeader"
      [] code \in 220..221 -> "ListHeader"
      [] code \in 222..223 -> "MapHeader"

mpCodeSize(code) ==
    <<0, 0, 0, 0, 1, 2, 4, 1, 2, 4, 4, 8, 1, 2, 4, 8, 1, 2, 4, 8,
      2, 3, 5, 9, 17, 1, 2, 4, 2, 4, 2, 4>>[code - mpCodeMin + 1]

nextFormat(code) ==
    IF code <= mpPosFixIntMax THEN [format |-> "LongToken", len |-> 0]
    ELSE IF code <= mpFixMapMax THEN [format |-> "MapHeader", len |-> 0]
    ELSE IF code <= mpFixArrayMax THEN [format |-> "ListHeader", len |-> 0]
    ELSE IF code <= mpFixStrMax THEN [format |-> "StrHeader", len |-> 0]
    ELSE IF code <= mpCodeMax
    THEN [format |-> mpCodeFormat(code), len |-> mpCodeSize(code)]
    ELSE [format |-> "LongToken", len |-> 0]

\* Next that moves the offset to the end of the buffer when the header is
\* cut short
UnpackerNext_skip(buf, off) ==
    LET remaining == Len(buf) - off
    IN IF remaining <= 0 THEN [format |-> "EOF", header |-> <<>>, off |-> off]
       ELSE LET nf == nextFormat(buf[off + 1])
                n == 1 + nf.len
            IN IF n > remaining
               THEN [format |-> "UnexpectedEOF", header |-> <<>>, off |-> Len(buf)]
               ELSE [format |-> nf.format, header |-> SubSeq(buf, off + 1, off + n),
                     off |-> off + n]

\* messageBufUnpacker.Next over buf at offset off
UnpackerNext(buf, off) ==
    LET remaining == Len(buf) - off
    IN IF remaining <= 0 THEN [format |-> "EOF", header |-> <<>>, off |-> off]
       ELSE LET nf == nextFormat(buf[off + 1])
                n == 1 + nf.len
            IN IF n > remaining
               THEN [format |-> "UnexpectedEOF", header |-> <<>>, off |-> off]
               ELSE [format |-> nf.format, header |-> SubSeq(buf, off + 1, off + n),
                     off |-> off + n]

\* messageBufUnpacker.Read
UnpackerRead(buf, off, n) ==
    IF Len(buf) - off < n THEN [b |-> <<>>, err |-> "UnexpectedEOF", off |-> off]
    ELSE [b |-> SubSeq(buf, off + 1, off + n), err |-> "nil", off |-> off + n]

\* the parser is handed headers whose code nextFormat classified, so its
\* "invalid code" branches are not reached and its error stays nil
ParseBool(b) == b[1] = mpTrue

ParseLong(b) ==
    LET code == b[1]
    IN CASE code \in {mpUint8, mpUint16, mpUint32, mpUint64} -> FromBE(Tail(b))
         [] code \in {mpInt8, mpInt16, mpInt32} -> Signed(Tail(b))
         [] code = mpInt64 -> IF b[2] < 128 THEN FromBE(Tail(b))
                              ELSE Signed(SubSeq(b, 6, 9))   \* of 32 bits
         [] code <= mpPosFixIntMax -> code
         [] OTHER -> code - 256

ParseDouble(b) ==
    IF b[1] = mpFloat64 THEN Tail(b)
    ELSE CASE Tail(b) = <<63, 192, 0, 0>> -> Bits1_5
           [] Tail(b) = <<127, 192, 0, 0>> -> <<127, 248, 0, 0, 0, 0, 0, 0>>
           [] Tail(b) = <<127, 128, 0, 0>> -> BitsInf

ParseBin(b) == FromBE(Tail(b))
ParseStr(b) == IF b[1] <= mpFixStrMax THEN b[1] - mpFixStrMin ELSE FromBE(Tail(b))
ParseList(b) == IF b[1] <= mpFixArrayMax THEN b[1] - mpFixArrayMin ELSE FromBE(Tail(b))
ParseMap(b) == IF b[1] <= mpFixMapMax THEN b[1] - mpFixMapMin ELSE FromBE(Tail(b))

\* ParseExt reading one length byte of an ext16 header
ParseExt_oneByte(b) ==
    CASE b[1] = mpFixExt1 -> [len |-> 1, tagAndData |-> Tail(b)]
      [] b[1] = mpFixExt2 -> [len |-> 2, tagAndData |-> Tail(b)]
      [] b[1] = mpFixExt4 -> [len |-> 4, tagAndData |-> Tail(b)]
      [] b[1] = mpFixExt8 -> [len |-> 8, tagAndData |-> Tail(b)]
      [] b[1] = mpFixExt16 -> [len |-> 16, tagAndData |-> Tail(b)]
      [] b[1] = mpExt8 -> [len |-> b[2], tagAndData |-> SubSeq(b, 3, Len(b))]
      [] b[1] = mpExt16 -> [len |-> b[2], tagAndData |-> SubSeq(b, 4, Len(b))]
      [] b[1] = mpExt32 -> [len |-> FromBE(SubSeq(b, 2, 5)), tagAndData |-> SubSeq(b, 6, Len(b))]

ParseExt(b) ==
    CASE b[1] = mpFixExt1 -> [len |-> 1, tagAndData |-> Tail(b)]
      [] b[1] = mpFixExt2 -> [len |-> 2, tagAndData |-> Tail(b)]
      [] b[1] = mpFixExt4 -> [len |-> 4, tagAndData |-> Tail(b)]
      [] b[1] = mpFixExt8 -> [len |-> 8, tagAndData |-> Tail(b)]
      [] b[1] = mpFixExt16 -> [len |-> 16, tagAndData |-> Tail(b)]
      [] b[1] = mpExt8 -> [len |-> b[2], tagAndData |-> SubSeq(b, 3, Len(b))]
      [] b[1] = mpExt16 -> [len |-> FromBE(SubSeq(b, 2, 3)), tagAndData |-> SubSeq(b, 4, Len(b))]
      [] b[1] = mpExt32 -> [len |-> FromBE(SubSeq(b, 2, 5)), tagAndData |-> SubSeq(b, 6, Len(b))]

(***************************************************************************)
(* Strings of values used as map keys by the value parser.                 *)
(***************************************************************************)
RECURSIVE Digits(_)
Digits(n) == IF n < 10 THEN <<48 + n>> ELSE Digits(n \div 10) \o <<48 + (n % 10)>>
Itoa(n) == IF n < 0 THEN <<45>> \o Digits(-n) ELSE Digits(n)

\* Value.String() of the kinds the model puts on the wire as keys
String(v) ==
    CASE v.k = "utf8" -> v.s
      [] v.k = "long" -> Itoa(v.n)
      [] v.k = "bool" -> IF v.n = 1 THEN <<116, 114, 117, 101>>
                         ELSE <<102, 97, 108, 115, 101>>
      [] v.k = "double" /\ IsNaN(v.s) -> <<78, 97, 78>>
      [] v.k = "double" /\ v.s = Bits1_5 -> <<49, 46, 53>>

\* Number.Long()
NumLong(v) == IF v.k = "double" THEN DoubleLong(v.s) ELSE v.n

\* Number.Double()
NumDouble(v) == IF v.k = "double" THEN v.s ELSE DoubleOf(2 * v.n)

\* Number.BigInt(): zero for NaN, else the double truncated towards zero
NumBigInt(v) ==
    IF v.k # "double" THEN v.n
    ELSE IF IsNaN(v.s) THEN 0
    ELSE LET h == HalvesOf(v.s) IN IF h < 0 THEN -((-h) \div 2) ELSE h \div 2

(***************************************************************************)
(* sort.Sort on fewer than 12 elements is an insertion sort; Less calls    *)
(* Key() on both elements, and panics on a nil ListItem or MapEntry.       *)
(***************************************************************************)
Less(kind, a, b) == IF kind = "sparse" THEN a.ikey < b.ikey ELSE StrLess(a.skey, b.skey)

RECURSIVE InsertSorted(_, _, _)
\* the element c sinks from the end of the sorted prefix to its place
InsertSorted(kind, sorted, c) ==
    IF sorted = <<>> THEN <<c>>
    ELSE LET last == sorted[Len(sorted)]
         IN IF Less(kind, c, last)
            THEN InsertSorted(kind, SubSeq(sorted, 1, Len(sorted) - 1), c) \o <<last>>
            ELSE sorted \o <<c>>

RECURSIVE InsertionSort(_, _)
InsertionSort(kind, cells) ==
    IF Len(cells) <= 1 THEN cells
    ELSE InsertSorted(kind, InsertionSort(kind, SubSeq(cells, 1, Len(cells) - 1)),
                      cells[Len(cells)])

Result(v, err, off) == [v |-> v, err |-> err, off |-> off]

\* SparseList(items, sorted) and SortedMap(entries, sorted)
Sorted(kind, cells, sorted, off) ==
    IF sorted THEN Result(MkV(kind, 0, <<>>, cells), "nil", off)
    ELSE IF Len(cells) >= 2 /\ \E p \in 1..Len(cells) : cells[p].isnil
    THEN Result(NilV, "panic", off)
    ELSE Result(MkV(kind, 0, <<>>, InsertionSort(kind, cells)), "nil", off)

(***************************************************************************)
(* The value parser.  A result is the value, the error ("nil" for none;    *)
(* "panic" when the call does not return) and the unpacker's offset.       *)
(***************************************************************************)
doParseExt(tagAndData, off) ==
    LET xtag == tagAndData[1]
        ext == Tail(tagAndData)
    IN IF xtag = BigIntExt
       THEN Result(BigInt(UnpackBigInt(ext).v), UnpackBigInt(ext).err, off)
       ELSE Result(Unknown(tagAndData), "nil", off)

RECURSIVE doParse(_, _), doParseList(_, _, _, _), doParseMap(_, _)

doParse(buf, off0) ==
    LET nx == UnpackerNext(buf, off0)
        format == nx.format
        header == nx.header
        off == nx.off
    IN CASE format = "EOF" -> Result(NilV, "EOF", off)
         [] format = "UnexpectedEOF" -> Result(NilV, "UnexpectedEOF", off)
         [] format = "NilToken" -> Result(NilV, "nil", off)
         [] format = "BoolToken" -> Result(Boolean(ParseBool(header)), "nil", off)
         [] format = "LongToken" -> Result(Long(ParseLong(header)), "nil", off)
         [] format = "DoubleToken" -> Result(Double(ParseDouble(header)), "nil", off)
         [] format = "FixExtToken" -> doParseExt(ParseExt(header).tagAndData, off)
         [] format = "BinHeader" ->
              LET rd == UnpackerRead(buf, off, ParseBin(header))
              IN IF rd.err # "nil" THEN Result(NilV, rd.err, rd.off)
                 ELSE Result(Raw(rd.b), "nil", rd.off)
         [] format = "StrHeader" ->
              LET rd == UnpackerRead(buf, off, ParseStr(header))
              IN IF rd.err # "nil" THEN Result(NilV, rd.err, rd.off)
                 ELSE Result(Utf8(rd.b), "nil", rd.off)
         [] format = "ListHeader" ->
              LET cnt == ParseList(header)
              IN IF cnt = 0 THEN Result(EmptyList, "nil", off)
                 ELSE doParseList(buf, off, cnt, <<>>)
         [] format = "MapHeader" ->
              LET cnt == ParseMap(header)
              IN IF cnt = 0 THEN Result(EmptyMap, "nil", off)
                 ELSE doParseMap(buf, [i |-> 0, cnt |-> cnt, off |-> off,
                                       items |-> <<>>, entries |-> <<>>,
                                       mayBeList |-> FALSE, sorted |-> TRUE,
                                       prevListKey |-> 0, prevMapKey |-> <<>>])
         [] format = "ExtHeader" ->
              LET rd == UnpackerRead(buf, off, ParseExt(header).len + 1)
              IN IF rd.err # "nil" THEN Result(NilV, rd.err, rd.off)
                 ELSE doParseExt(rd.b, rd.off)

\* the loop of doParseList, with the elements read so far
doParseList(buf, off, cnt, list) ==
    IF Len(list) = cnt THEN Result(SolidList(list), "nil", off)
    ELSE LET el == doParse(buf, off)
         IN IF el.err # "nil" THEN Result(NilV, el.err, el.off)
            ELSE doParseList(buf, el.off, cnt, Append(list, ValCell(el.v)))

\* The loop of doParseMap; st holds its local variables.  items and entries
\* are the arrays sparseListItems and sortedMapEntries: <<>> while nil.
doParseMap(buf, st) ==
    IF st.i = st.cnt
    THEN IF st.mayBeList THEN Sorted("sparse", st.items, st.sorted, st.off)
         ELSE Sorted("map", st.entries, st.sorted, st.off)
    ELSE
    LET i == st.i
        kr == doParse(buf, st.off)
        vr == doParse(buf, kr.off)
        key == kr.v
        value == vr.v
        \* first element: the array of the guessed kind is allocated
        first == IF i # 0 \/ key = NilV THEN st
                 ELSE IF Kind(key) = "NUMBER"
                 THEN [st EXCEPT !.mayBeList = TRUE, !.items = Pad("sparse", st.cnt)]
                 ELSE [st EXCEPT !.mayBeList = FALSE, !.entries = Pad("map", st.cnt)]
        next == [first EXCEPT !.i = i + 1, !.off = vr.off]
    IN IF kr.err # "nil" THEN Result(NilV, kr.err, kr.off)
       ELSE IF vr.err # "nil" THEN Result(NilV, vr.err, vr.off)
       ELSE IF key = NilV THEN doParseMap(buf, next)
       ELSE IF first.mayBeList
       THEN IF Kind(key) = "NUMBER"
            THEN LET k == NumLong(key)
                 IN doParseMap(buf, [next EXCEPT
                        !.sorted = first.sorted /\ ~(i > 0 /\ first.prevListKey > k),
                        !.items[i + 1] = Item(k, value),
                        !.prevListKey = k])
            \* not a list: the items read so far are converted, but the loop
            \* reads sparseListItems[i], which is still nil
            ELSE IF i > 0 /\ first.items[i + 1].isnil
            THEN Result(NilV, "panic", vr.off)
            ELSE LET k == String(key)
                 IN doParseMap(buf, [next EXCEPT
                        !.mayBeList = FALSE,
                        !.sorted = first.sorted /\ ~(i > 0 /\ StrLess(k, first.prevMapKey)),
                        !.entries = [Pad("map", st.cnt) EXCEPT ![i + 1] = Entry(k, value)],
                        !.prevMapKey = k])
       \* sortedMapEntries[i] of a nil array: index out of range
       ELSE IF first.entries = <<>> THEN Result(NilV, "panic", vr.off)
       ELSE LET k == String(key)
            IN doParseMap(buf, [next EXCEPT
                   !.sorted = first.sorted /\ ~(i > 0 /\ StrLess(k, first.prevMapKey)),
                   !.entries[i + 1] = Entry(k, value),
                   !.prevMapKey = k])

\* Unpack(buf, copy): Parse on an unpacker over buf
Unpack(buf) == [v |-> doParse(buf, 0).v, err |-> doParse(buf, 0).err]

(***************************************************************************)
(* Equal.                                                                  *)
(***************************************************************************)
\* List.Len() and List.Items() of a list value, Map.Entries() of a map
ListLen(v) ==
    IF v.k = "solid" THEN Len(v.items)
    ELSE IF v.items = <<>> THEN 0 ELSE v.items[Len(v.items)].ikey + 1
Items(v) ==
    IF v.k = "sparse" THEN v.items
    ELSE [p \in 1..Len(v.items) |-> Item(p - 1, v.items[p].value)]
GetAt(v, i) ==
    IF v.k = "solid"
    THEN IF i >= 0 /\ i < Len(v.items) THEN v.items[i + 1].value ELSE NilV
    ELSE LET hit == {p \in 1..Len(v.items) : v.items[p].ikey >= i}
         IN IF hit = {} THEN NilV
            ELSE LET p == CHOOSE q \in hit : \A q2 \in hit : q <= q2
                 IN IF v.items[p].ikey = i THEN v.items[p].value ELSE NilV

RECURSIVE Equal(_, _), ValueEqual(_, _)
\* Equal(left, right): the nil friendly comparison
Equal(left, right) ==
    IF left = NilV THEN right = NilV ELSE ValueEqual(left, right)

\* a.Equal(b) of each concrete type (a is not nil)
ValueEqual(a, b) ==
    CASE a.k = "null" -> b = NilV \/ Kind(b) = "NULL"
      [] a.k = "bool" -> b # NilV /\ Kind(b) = "BOOL" /\ a.n = b.n
      [] a.k = "long" -> b # NilV /\ Kind(b) = "NUMBER" /\ a.n = NumLong(b)
      [] a.k = "double" ->
           /\ b # NilV /\ Kind(b) = "NUMBER"
           /\ ~IsNaN(a.s)
           /\ ~(b.k = "double" /\ IsNaN(b.s))
           /\ DoubleClose(a.s, NumDouble(b))
      [] a.k = "bigint" ->
           b # NilV /\ Kind(b) = "NUMBER" /\ a.n = NumBigInt(b)
      \* (String() of a raw string is its base64 text behind a prefix, which
      \* none of the Utf8 strings of the model is)
      [] a.k = "utf8" -> b # NilV /\ Kind(b) = "STRING" /\ b.k = "utf8" /\ a.s = b.s
      [] a.k = "raw" -> b # NilV /\ Kind(b) = "STRING" /\ a.s = b.s
      [] a.k = "unknown" -> b # NilV /\ Kind(b) = "UNKNOWN" /\ a.s = b.s
      [] a.k = "solid" ->
           /\ b # NilV /\ Kind(b) = "LIST"
           /\ ListLen(a) = ListLen(b)
           /\ \A p \in 1..Len(a.items) : Equal(a.items[p].value, GetAt(b, p - 1))
      [] a.k = "sparse" ->
           /\ b # NilV /\ Kind(b) = "LIST"
           /\ ListLen(a) = ListLen(b)
           /\ Len(Items(b)) >= Len(a.items)     \* (other[i] is indexed)
           /\ \A p \in 1..Len(a.items) :
                /\ a.items[p].ikey = Items(b)[p].ikey
                /\ Equal(a.items[p].value, Items(b)[p].value)
      [] a.k = "map" ->
           /\ b # NilV /\ Kind(b) = "MAP"
           /\ Len(a.items) = Len(b.items)
           /\ \A p \in 1..Len(a.items) :
                /\ a.items[p].skey = b.items[p].skey
                /\ Equal(a.items[p].value, b.items[p].value)

(***************************************************************************)
(* SpecCodec: a constructible value is packed, and the bytes are unpacked. *)
(* (Decimal, whose bytes are made by another library, Long beyond 32 bits  *)
(* and collections of more than 15 elements are outside this universe.)    *)
(***************************************************************************)
LongSamples ==
    {0, 1, 127, 128, 255, 256, 65535, 65536,
     -1, -32, -33, -128, -129, -32768, -32769}
Str32 == [i \in 1..32 |-> 97]
Scalars ==
    {NullV, Boolean(TRUE), Boolean(FALSE)}
    \cup {Long(n) : n \in LongSamples}
    \cup {Double(Bits1_5), Double(BitsNaN), Double(BitsInf)}
    \cup {BigInt(0), BigInt(1), BigInt(-300)}
    \cup {Utf8(<<>>), Utf8(<<97>>), Utf8(Str32)}
    \cup {Raw(<<>>), Raw(<<1, 2>>)}
    \cup {Unknown(<<5>>), Unknown(<<5, 1>>), Unknown(<<5, 1, 2, 3>>), Unknown(<<1, 2>>)}
Empties == {EmptyList, EmptySparseList, EmptyMap}
Wrap(V) ==
    {SolidList(<<ValCell(v)>>) : v \in V}
    \cup {SolidList(<<ValCell(NilV), ValCell(v)>>) : v \in V}
    \cup {SortedSparseList(<<Item(5, v)>>) : v \in V}
    \cup {SortedSparseList(<<Item(0, v), Item(7, v)>>) : v \in V}
    \cup {MapOf(<<Entry(<<97>>, v)>>) : v \in V}
    \cup {MapOf(<<Entry(<<97>>, v), Entry(<<98>>, v)>>) : v \in V}
Universe ==
    Scalars \cup Empties \cup Wrap(Scalars \cup Empties)
    \cup Wrap(Wrap({Long(1), Utf8(<<97>>), EmptyList}))

InitCodec ==
    /\ cval \in Universe
    /\ cbuf = <<>>
    /\ cres = NoResult
    /\ cpc = "value"
    /\ wire = <<>>
    /\ IdleColl /\ IdleOrder /\ IdleRace /\ IdlePacker /\ IdleStream

\* blob, err := Pack(cval)
DoPack ==
    /\ cpc = "value"
    /\ cbuf' = Pack(cval).b
    /\ cpc' = "packed"
    /\ UNCHANGED <<cval, cres, wire, collVars, orderVars, raceVars, packerVars, streamVars>>

\* c, err := Unpack(blob, false)
DoUnpack ==
    /\ cpc = "packed"
    /\ cres' = Unpack(cbuf)
    /\ cpc' = "unpacked"
    /\ UNCHANGED <<cval, cbuf, wire, collVars, orderVars, raceVars, packerVars, streamVars>>

NextCodec == DoPack \/ DoUnpack

SpecCodec == InitCodec /\ [][NextCodec]_vars

(***************************************************************************)
(* SpecWire: a map written by any MessagePack encoder arrives and is       *)
(* unpacked.  Its keys are any values (nil included); the value of the     *)
(* entry at position p is the number p.                                    *)
(***************************************************************************)
WireKeys ==
    {Long(0), Long(1), Long(2), Double(Bits1_5),
     Utf8(<<97>>), Utf8(<<98>>), Boolean(TRUE), NilV}
WireMaps == UNION {[1..n -> WireKeys] : n \in 1..MaxWire}

RECURSIVE WirePairs(_, _)
WirePairs(keys, p) ==
    IF p > Len(keys) THEN <<>>
    ELSE PackValue(keys[p]) \o WriteLong(p) \o WirePairs(keys, p + 1)
WireBytes(keys) == WriteMapHeader(Len(keys)) \o WirePairs(keys, 1)

InitWire ==
    /\ wire \in WireMaps
    /\ cbuf = WireBytes(wire)
    /\ cval = NilV
    /\ cres = NoResult
    /\ cpc = "packed"
    /\ IdleColl /\ IdleOrder /\ IdleRace /\ IdlePacker /\ IdleStream

SpecWire == InitWire /\ [][DoUnpack]_vars

(***************************************************************************)
(* SpecOrder: two maps are built from EmptyMap by adding the same pairs in *)
(* two orders, all by Put or all by Insert.  (The two chains share         *)
(* nothing; the second is run after the first.)                            *)
(***************************************************************************)
OrderKeys == {<<97>>, <<98>>, <<99>>}
PairSeqs == UNION {[1..n -> OrderKeys \X Vals] : n \in 1..MaxPairs}
IsPerm(f, n) == \A p \in 1..n : \E q \in 1..n : f[q] = p
Perms(s) == {[p \in 1..Len(s) |-> s[f[p]]] :
               f \in {g \in [1..Len(s) -> 1..Len(s)] : IsPerm(g, Len(s))}}

InitOrder ==
    /\ mode \in {"Put", "Insert"}
    /\ \E s \in PairSeqs : \E s2 \in Perms(s) : todo = [r \in {1, 2} |-> IF r = 1 THEN s ELSE s2]
    /\ pos = [r \in {1, 2} |-> 0]
    /\ heap = <<>>
    /\ regs = [r \in Regs |-> IF r = 3 THEN NoSlice ELSE EmptySlice("map")]
    /\ lastDst = 1
    /\ lastOp = "none"
    /\ lastArg = 0
    /\ absMap = [k \in SKeys |-> NilV]
    /\ IdleCodec /\ IdleRace /\ IdlePacker /\ IdleStream

OrderTurn(r) ==
    /\ pos[r] < Len(todo[r])
    /\ r = 2 => pos[1] = Len(todo[1])

OrderStore(r, res) ==
    /\ LET c == Compact(res.h, [regs EXCEPT ![r] = res.t])
       IN heap' = c.h /\ regs' = c.regs
    /\ pos' = [pos EXCEPT ![r] = @ + 1]
    /\ UNCHANGED <<todo, mode, lastDst, lastOp, lastArg, absMap,
                   codecVars, raceVars, packerVars, streamVars>>

\* m[r] = m[r].Put(key, value) with the next pair of its order
OrderPut(r) ==
    /\ mode = "Put"
    /\ OrderTurn(r)
    /\ \E sp \in Spares :
         LET e == todo[r][pos[r] + 1]
         IN OrderStore(r, Map_Put(heap, regs[r], e[1], e[2], sp))

\* m[r] = m[r].Insert(key, value) with the next pair of its order
OrderInsert(r) ==
    /\ mode = "Insert"
    /\ OrderTurn(r)
    /\ \E sp \in Spares :
         LET e == todo[r][pos[r] + 1]
         IN OrderStore(r, Map_Insert(heap, regs[r], e[1], e[2], sp))

NextOrder == \E r \in {1, 2} : OrderPut(r) \/ OrderInsert(r)

SpecOrder == InitOrder /\ [][NextOrder]_vars

(***************************************************************************)
(* SpecRace: a list or a map is built and then shared by two goroutines,   *)
(* which each call Append (Put with a key greater than every key of the    *)
(* map) on it without synchronization.  A call that finds spare capacity   *)
(* stores its element into the shared backing array: an interface value    *)
(* of two words, the type word and the data word, stored one after the     *)
(* other.                                                                  *)
(***************************************************************************)
RaceElem(g) == IF g = 2 THEN Long(3) ELSE Utf8(<<120>>)
RaceKey(g) == IF g = 2 THEN <<99>> ELSE <<100>>
OwnCell(kind, g) ==
    IF kind = "solid" THEN ValCell(RaceElem(g)) ELSE Entry(RaceKey(g), RaceElem(g))

\* a Value in a []Value carries its concrete type in the type word; a
\* MapEntry is a pointer to the entry, of one type for every entry
TypeWord(kind, old, new) ==
    IF kind = "solid" THEN [old EXCEPT !.value.k = new.value.k]
    ELSE [old EXCEPT !.isnil = new.isnil]
DataWord(kind, old, new) ==
    IF kind = "solid" THEN [old EXCEPT !.value = [new.value EXCEPT !.k = old.value.k]]
    ELSE [new EXCEPT !.isnil = old.isnil]

InitRace == \E kind \in {"solid", "map"} : InitColl(kind)

\* the shared value is built before the goroutines start
RaceBuild ==
    /\ \A g \in Callers : pc[g] = "idle"
    /\ \/ SolidAppend(1, 1)
       \/ MapPut(1, 1)

\* goroutine g calls shared.Append(elem) or shared.Put(key, elem): every
\* step of the call but the store into the shared array
RaceCall(g) ==
    /\ pc[g] = "idle"
    /\ regs[1].kind \in {"solid", "map"}
    /\ \E sp \in Spares :
         LET t == regs[1]
             r == IF t.kind = "solid" THEN Solid_Append(heap, t, RaceElem(g), sp)
                  ELSE Map_Put(heap, t, RaceKey(g), RaceElem(g), sp)
         IN IF t.arr # 0 /\ r.t.arr = t.arr
            THEN /\ pend' = [pend EXCEPT ![g] =
                               [t |-> r.t, slot |-> r.t.off + r.t.len,
                                cell |-> OwnCell(t.kind, g)]]
                 /\ pc' = [pc EXCEPT ![g] = "type"]
                 /\ UNCHANGED <<heap, regs>>
            ELSE /\ heap' = r.h
                 /\ regs' = [regs EXCEPT ![g] = r.t]
                 /\ pc' = [pc EXCEPT ![g] = "done"]
                 /\ UNCHANGED pend
    /\ UNCHANGED <<lastDst, lastOp, lastArg, absMap, codecVars, orderVars, packerVars, streamVars>>

\* the store of the type word of goroutine g's element
RaceStoreType(g) ==
    /\ pc[g] = "type"
    /\ LET a == pend[g].t.arr
           p == pend[g].slot
       IN heap' = [heap EXCEPT ![a][p] = TypeWord(regs[1].kind, @, pend[g].cell)]
    /\ pc' = [pc EXCEPT ![g] = "data"]
    /\ UNCHANGED <<regs, pend, lastDst, lastOp, lastArg, absMap,
                   codecVars, orderVars, packerVars, streamVars>>

\* the store of the data word; the call returns the longer slice
RaceStoreData(g) ==
    /\ pc[g] = "data"
    /\ LET a == pend[g].t.arr
           p == pend[g].slot
       IN heap' = [heap EXCEPT ![a][p] = DataWord(regs[1].kind, @, pend[g].cell)]
    /\ regs' = [regs EXCEPT ![g] = pend[g].t]
    /\ pc' = [pc EXCEPT ![g] = "done"]
    /\ UNCHANGED <<pend, lastDst, lastOp, lastArg, absMap,
                   codecVars, orderVars, packerVars, streamVars>>

NextRace ==
    \/ RaceBuild
    \/ \E g \in Callers : RaceCall(g)
    \/ \E g \in Callers : RaceStoreType(g)
    \/ \E g \in Callers : RaceStoreData(g)

SpecRace == InitRace /\ [][NextRace]_vars

(***************************************************************************)
(* SpecPacker: emit calls on the Packer that MessagePacker returned over a *)
(* writer whose Write fails from its call number failAt on.  The error of  *)
(* Write call k is named k; 0 is the nil error.  wlog has the emit that    *)
(* made each Write call on the writer.                                     *)
(***************************************************************************)
InitPacker ==
    /\ perr = 0
    /\ failAt \in 1..MaxWrites
    /\ wlog = <<>>
    /\ IdleColl /\ IdleCodec /\ IdleOrder /\ IdleRace /\ IdleStream

\* `if p.err == nil { _, p.err = p.w.Write(..) }` on the method's p
WriteIfOk(p, op) ==
    IF p.err # 0 THEN p
    ELSE [err |-> IF Len(p.log) + 1 >= failAt THEN Len(p.log) + 1 ELSE 0,
          log |-> Append(p.log, op)]

\* An emit method making n guarded writes.  With a value receiver the
\* method works on a copy of the packer, and the err it assigns is lost
\* when it returns; with a pointer receiver it is the packer's.
Emit(op, n, pointerReceiver) ==
    /\ Len(wlog) < MaxWrites
    /\ LET p0 == [err |-> perr, log |-> wlog]
           p1 == WriteIfOk(p0, op)
           p2 == IF n = 2 THEN WriteIfOk(p1, op) ELSE p1
       IN /\ wlog' = p2.log
          /\ perr' = IF pointerReceiver THEN p2.err ELSE perr
    /\ UNCHANGED <<failAt, collVars, codecVars, orderVars, raceVars, streamVars>>

PackNil == Emit("PackNil", 1, FALSE)
PackBool == Emit("PackBool", 1, FALSE)
PackLong == Emit("PackLong", 1, FALSE)
PackDouble == Emit("PackDouble", 1, FALSE)
PackStr == Emit("PackStr", 2, FALSE)
PackBin == Emit("PackBin", 2, FALSE)
PackExt == Emit("PackExt", 2, TRUE)
PackList == Emit("PackList", 1, FALSE)
PackMap == Emit("PackMap", 1, FALSE)
PackRaw == Emit("PackRaw", 1, FALSE)

\* p.Error()
Error == perr

NextPacker ==
    \/ PackNil
    \/ PackBool
    \/ PackLong
    \/ PackDouble
    \/ PackStr
    \/ PackBin
    \/ PackExt
    \/ PackList
    \/ PackMap
    \/ PackRaw

SpecPacker == InitPacker /\ [][NextPacker]_vars

(***************************************************************************)
(* Properties of the collection specifications.                            *)
(***************************************************************************)
KeysOf(h, t) == [p \in 1..t.len |-> Elems(h, t)[p].ikey]
SKeysOf(h, t) == [p \in 1..t.len |-> Elems(h, t)[p].skey]
MaxKey(S) == CHOOSE m \in S : \A x \in S : x <= m
Range(f) == {f[p] : p \in DOMAIN f}
LenFromKeys(ks) == IF ks = {} THEN 0 ELSE MaxKey(ks) + 1

\* C2 (as claimed): in SpecCow a mutator called on the receiver held in
\* register 1, with its result stored in register 2, leaves the contents
\* seen through register 1 (its length and every element) as they were.
C2_ReceiverUnchanged ==
    [][lastDst' = 2 => View(heap', regs'[1]) = View(heap, regs[1])]_vars

\* C5: in SpecMapChain, after every chain of Put, Insert, Remove, InsertAll
\* and DeleteAll from EmptyMap no key of the entry array is smaller than the
\* key before it, and Get finds every stored key.
C5_KeysAscending ==
    LET t == regs[1]
        ks == SKeysOf(heap, t)
    IN t.kind = "map" =>
         /\ \A p \in 1..(t.len - 1) : ~StrLess(ks[p + 1], ks[p])
         /\ \A p \in 1..t.len : Map_Get(heap, t, ks[p]).ok

C5_Witness ==
    /\ regs[1].kind = "map"
    /\ lastOp = "InsertAll"
    /\ SKeysOf(heap, regs[1]) = << <<97>>, <<97, 98>>, <<97, 98>> >>

\* C6: in SpecPutRemove, after every chain of Put and Remove from EmptyMap
\* the map is the finite function absMap: Get(k) answers the value of the
\* latest Put(k, v) not followed by Remove(k) and "absent" for every other
\* key, Len is the number of live keys, and no key is stored twice.
C6_FiniteFunction ==
    LET t == regs[1]
        ks == SKeysOf(heap, t)
    IN t.kind = "map" =>
         /\ \A k \in SKeys :
              Map_Get(heap, t, k) = [value |-> absMap[k], ok |-> absMap[k] # NilV]
         /\ Map_Len(t) = Cardinality({k \in SKeys : absMap[k] # NilV})
         /\ \A p, q \in 1..t.len : p # q => ks[p] # ks[q]

C6_Witness ==
    /\ regs[1].kind = "map"
    /\ lastOp = "Put"
    /\ regs[1].len = 2
    /\ absMap[<<97>>] = Long(2)
    /\ absMap[<<97, 98>>] = NilV
    /\ absMap[<<98>>] = Long(1)
    /\ Map_Get(heap, regs[1], <<97>>).value = Long(2)

\* C9: in SpecSparseChain, after every chain of PutAt, InsertAt, Append,
\* RemoveAt, InsertAll and DeleteAll from EmptySparseList, Len() is the
\* largest stored key plus one (0 without items); the list holding exactly
\* the keys 5, 7 and 9 has Len() 10; and Append adds one item, whose key is
\* Len() of the receiver.
C9_LenIsMaxKeyPlusOne ==
    /\ [](regs[1].kind = "sparse" =>
            /\ Sparse_Len(heap, regs[1]) = LenFromKeys(Range(KeysOf(heap, regs[1])))
            /\ (KeysOf(heap, regs[1]) = <<5, 7, 9>> => Sparse_Len(heap, regs[1]) = 10))
    /\ [][lastOp' = "Append" =>
            /\ regs'[1].len = regs[1].len + 1
            /\ \E p \in 1..regs'[1].len :
                 /\ KeysOf(heap', regs'[1])[p] = Sparse_Len(heap, regs[1])
                 /\ KeysOf(heap', regs'[1])
                      = SubSeq(KeysOf(heap, regs[1]), 1, p - 1)
                          \o <<Sparse_Len(heap, regs[1])>>
                          \o SubSeq(KeysOf(heap, regs[1]), p, regs[1].len)]_vars

C9_Witness ==
    /\ regs[1].kind = "sparse"
    /\ lastOp = "PutAt"
    /\ lastArg = 5
    /\ KeysOf(heap, regs[1]) = <<5, 7, 9>>
    /\ Sparse_Len(heap, regs[1]) = 10

\* what is left of the keys after one item with key k is taken out
KeysWithout(ks, k) ==
    LET p == CHOOSE q \in 1..Len(ks) : ks[q] = k
    IN SubSeq(ks, 1, p - 1) \o SubSeq(ks, p + 1, Len(ks))

\* C10 (as claimed): in SpecSparseChain, RemoveAt(k) on a populated key k
\* returns a list whose Len() is one less than the receiver's.
C10_LenOneLess ==
    [][(lastOp' = "RemoveAt" /\ lastArg' \in Range(KeysOf(heap, regs[1])))
         => Sparse_Len(heap', regs'[1]) = Sparse_Len(heap, regs[1]) - 1]_vars

\* C10 (amended): in SpecSparseChain, RemoveAt(k) on a populated key k
\* returns a list with one item of key k fewer, and its Len() is the largest
\* remaining key plus one (0 when no item remains): Len() is unchanged unless
\* the only item with the largest key was removed.
C10_LenFromRemainingKeys ==
    [][(lastOp' = "RemoveAt" /\ lastArg' \in Range(KeysOf(heap, regs[1])))
         => /\ KeysOf(heap', regs'[1]) = KeysWithout(KeysOf(heap, regs[1]), lastArg')
            /\ Sparse_Len(heap', regs'[1])
                 = LenFromKeys(Range(KeysWithout(KeysOf(heap, regs[1]), lastArg')))]_vars

C10_Witness ==
    /\ regs[1].kind = "sparse"
    /\ lastOp = "RemoveAt"
    /\ lastArg = 5
    /\ KeysOf(heap, regs[1]) = <<7, 9>>
    /\ Sparse_Len(heap, regs[1]) = 10

(***************************************************************************)
(* Properties of the codec, ordering, sharing and packer specifications.   *)
(***************************************************************************)

\* C1: every constructible value v packs without error, and unpacking the
\* bytes returns without error a value c with v.Equal(c)
C1_RoundTrip ==
    cpc = "unpacked" =>
        /\ Pack(cval).err = "nil"
        /\ cres.err = "nil"
        /\ ValueEqual(cval, cres.v)

\* C3: when two goroutines each Append to (Put a greater key into) the same
\* shared value, the result a goroutine holds is, from the return of its
\* call on, the shared value's elements followed by its own element
C3_EachResultOwn ==
    \A g \in Callers :
        pc[g] = "done" =>
            View(heap, regs[g]) = View(heap, regs[1]) \o <<OwnCell(regs[1].kind, g)>>

OrderDone == \A r \in {1, 2} : pos[r] = Len(todo[r])
PackOf(r) == PackValue(MapOf(View(heap, regs[r])))
DistinctKeys(s) == \A p, q \in 1..Len(s) : p # q => s[p][1] # s[q][1]

\* C4 as stated: two maps built from EmptyMap by adding the same pairs in
\* two orders, all by Put or all by Insert, pack to the same bytes
C4_SameBytes == OrderDone => PackOf(1) = PackOf(2)

\* C4: two maps built from EmptyMap by adding the same pairs, no two of
\* them with the same key, in two orders, all by Put or all by Insert,
\* pack to the same bytes
C4_SameBytesDistinctKeys ==
    (OrderDone /\ DistinctKeys(todo[1])) => PackOf(1) = PackOf(2)

C4_Witness ==
    /\ OrderDone
    /\ mode = "Insert"
    /\ todo[1] = <<<<(<<98>>), Long(1)>>, <<(<<97>>), Long(2)>>>>
    /\ todo[2] = <<<<(<<97>>), Long(2)>>, <<(<<98>>), Long(1)>>>>
    /\ PackOf(1) = <<130, 161, 97, 2, 161, 98, 1>>
    /\ PackOf(2) = PackOf(1)

\* C7: once a Write call of an emit has failed, Error() returns that error
\* and no emit has made another Write call on the writer
C7_FailFast ==
    Len(wlog) >= failAt => (Error = failAt /\ Len(wlog) = failAt)

IsNumber(v) == v # NilV /\ Kind(v) = "NUMBER"
Ascending(kind, cells) ==
    /\ \A p \in 1..Len(cells) : ~cells[p].isnil
    /\ \A p \in 1..(Len(cells) - 1) : ~Less(kind, cells[p + 1], cells[p])

\* C8: a wire map of at least one entry whose keys are all Numbers decodes
\* to a sparse list with items in ascending key order; one whose first key
\* is not a Number decodes to a map with entries in ascending key order
C8_ListOrMap ==
    cpc = "unpacked" /\ Len(wire) >= 1 =>
        /\ (\A p \in 1..Len(wire) : IsNumber(wire[p])) =>
               /\ cres.err = "nil"
               /\ cres.v.k = "sparse"
               /\ Ascending("sparse", cres.v.items)
        /\ ~IsNumber(wire[1]) =>
               /\ cres.err = "nil"
               /\ cres.v.k = "map"
               /\ Ascending("map", cres.v.items)

\* C11: PutAt(i, v) on a solid list of length n gives, for i >= 0, a list of
\* length max(n, i+1) with v at i, the receiver's elements at the other
\* positions below n and the Null value at every position n..i-1; for i < 0
\* it gives a list equal to the receiver.
PutAtResult(i, v, sp) ==
    LET r == Solid_PutAt(heap, regs[1], i, v, sp)
    IN  Elems(r.h, r.t)

C11_PutAtFillsNull ==
    regs[1].kind = "solid" =>
        \A i \in -1..MaxLen, v \in Vals, sp \in Spares :
            LET a == View(heap, regs[1])
                n == Len(a)
                b == PutAtResult(i, v, sp)
            IN  IF i < 0
                THEN b = a
                ELSE /\ Len(b) = (IF n > i + 1 THEN n ELSE i + 1)
                     /\ b[i + 1].value = v
                     /\ \A p \in 1..n : p # i + 1 => b[p] = a[p]
                     /\ \A p \in (n + 1)..i : b[p].value = NullV

\* C12: after any sequence of list calls every position 0..Len()-1 of a solid
\* list holds a non-nil Value (a Go nil element is stored as Null).
C12_NoNilStored ==
    regs[1].kind = "solid" =>
        \A i \in 0..(Solid_Len(regs[1]) - 1) :
            Solid_GetAt(heap, regs[1], i) # NilV

(***************************************************************************)
(* SpecLong: WriteLong and ParseLong over the full width of int64.  An     *)
(* int64 is kept as its eight two's-complement bytes, most significant     *)
(* first; the values that fit 32 bits go through WriteLong above.          *)
(***************************************************************************)
\* the int64 of a number of the model
Int64(n) == IF n >= 0 THEN Fill(4, 0) \o BE(n, 4) ELSE Fill(4, 255) \o Twos(n, 4)

\* math.MinInt32 <= val <= math.MaxInt32
FitsInt32(val) ==
    \/ SubSeq(val, 1, 4) = Fill(4, 0) /\ val[5] < 128
    \/ SubSeq(val, 1, 4) = Fill(4, 255) /\ val[5] >= 128

WriteLong64(val) ==
    IF FitsInt32(val) THEN WriteLong(Signed(SubSeq(val, 5, 8)))
    ELSE IF val[1] < 128
         THEN IF SubSeq(val, 1, 4) = Fill(4, 0)
              THEN <<mpUint32>> \o SubSeq(val, 5, 8)
              ELSE <<mpUint64>> \o val
         ELSE <<mpInt64>> \o val

\* int64(uintN(..)) and int64(intN(..)) of the payload p
ZeroExtend(p) == Fill(8 - Len(p), 0) \o p
SignExtend(p) == Fill(8 - Len(p), IF p[1] >= 128 THEN 255 ELSE 0) \o p

LongCodes ==
    (0..mpPosFixIntMax) \cup (mpNegFixIntMin..255)
    \cup {mpUint8, mpUint16, mpUint32, mpUint64, mpInt8, mpInt16, mpInt32, mpInt64}

ParseLong64(b) ==
    LET code == b[1]
    IN CASE code \in {mpUint8, mpUint16, mpUint32, mpUint64} -> ZeroExtend(Tail(b))
         [] code \in {mpInt8, mpInt16, mpInt32, mpInt64} -> SignExtend(Tail(b))
         [] code <= mpPosFixIntMax -> ZeroExtend(<<code>>)
         [] code >= mpNegFixIntMin -> SignExtend(<<code>>)
         [] OTHER -> Fill(8, 0)

NarrowLongs ==
    (-130..130) \cup {255, 256, 257, 32767, 32768, 65535, 65536, 65537,
                      -32767, -32768, -32769, -65536, 2147483647, -2147483647}
WideLongs ==
    {<<255, 255, 255, 255, 128, 0, 0, 0>>,          \* math.MinInt32
     <<255, 255, 255, 255, 127, 255, 255, 255>>,    \* math.MinInt32 - 1
     <<0, 0, 0, 0, 128, 0, 0, 0>>,                  \* math.MaxInt32 + 1
     <<0, 0, 0, 0, 255, 255, 255, 255>>,            \* math.MaxUint32
     <<0, 0, 0, 1, 0, 0, 0, 0>>,                    \* math.MaxUint32 + 1
     <<127, 255, 255, 255, 255, 255, 255, 255>>,    \* math.MaxInt64
     <<128, 0, 0, 0, 0, 0, 0, 0>>,                  \* math.MinInt64
     <<255, 255, 255, 254, 255, 255, 255, 255>>}
LongInputs == {Int64(n) : n \in NarrowLongs} \cup WideLongs

InitLong ==
    /\ cval \in LongInputs
    /\ cbuf = <<>>
    /\ cres = NoResult
    /\ cpc = "long"
    /\ wire = <<>>
    /\ IdleColl /\ IdleOrder /\ IdleRace /\ IdlePacker /\ IdleStream

\* b := writer.WriteLong(val)
DoWriteLong ==
    /\ cpc = "long"
    /\ cbuf' = WriteLong64(cval)
    /\ cpc' = "written"
    /\ UNCHANGED <<cval, cres, wire, collVars, orderVars, raceVars, packerVars, streamVars>>

\* v := parser.ParseLong(b)
DoParseLong ==
    /\ cpc = "written"
    /\ cres' = [v |-> ParseLong64(cbuf),
                err |-> IF cbuf[1] \in LongCodes THEN "nil" ELSE "long: invalid code"]
    /\ cpc' = "parsed"
    /\ UNCHANGED <<cval, cbuf, wire, collVars, orderVars, raceVars, packerVars, streamVars>>

NextLong == DoWriteLong \/ DoParseLong

SpecLong == InitLong /\ [][NextLong]_vars

\* the integer forms of MessagePack: code, payload width, signedness
IntForms ==
    {[code |-> mpUint8, w |-> 1, signed |-> FALSE], [code |-> mpUint16, w |-> 2, signed |-> FALSE],
     [code |-> mpUint32, w |-> 4, signed |-> FALSE], [code |-> mpUint64, w |-> 8, signed |-> FALSE],
     [code |-> mpInt8, w |-> 1, signed |-> TRUE], [code |-> mpInt16, w |-> 2, signed |-> TRUE],
     [code |-> mpInt32, w |-> 4, signed |-> TRUE], [code |-> mpInt64, w |-> 8, signed |-> TRUE]}

\* the int64 val is in the range of the one-byte form, -32..127
FitsFix(val) ==
    \/ val = ZeroExtend(<<val[8]>>) /\ val[8] <= 127
    \/ val = SignExtend(<<val[8]>>) /\ val[8] >= 224

\* the int64 val is in the range of the form f
FitsForm(val, f) ==
    LET p == SubSeq(val, 9 - f.w, 8)
    IN IF f.signed THEN val = SignExtend(p) ELSE val = ZeroExtend(p)

\* C13: for every int64 v the bytes written for Long(v) are the shortest
\* MessagePack integer form that holds v (one byte for -32..127, else a code
\* cc..cf or d0..d3 and a payload), with the boundary encodings 7f, cc80, e0,
\* d0df and ce7fffffff, and ParseLong of the bytes returns v.
C13_ShortestLong ==
    cpc \in {"written", "parsed"} =>
        /\ IF FitsFix(cval)
           THEN cbuf = <<cval[8]>>
           ELSE \E f \in IntForms :
                    /\ FitsForm(cval, f)
                    /\ cbuf = <<f.code>> \o SubSeq(cval, 9 - f.w, 8)
                    /\ \A g \in IntForms : FitsForm(cval, g) => f.w <= g.w
        /\ cval = Int64(127) => cbuf = <<127>>
        /\ cval = Int64(128) => cbuf = <<204, 128>>
        /\ cval = Int64(-32) => cbuf = <<224>>
        /\ cval = Int64(-33) => cbuf = <<208, 223>>
        /\ cval = Int64(2147483647) => cbuf = <<206, 127, 255, 255, 255>>
        /\ FitsInt32(cval) =>
               ParseLong(WriteLong(Signed(SubSeq(cval, 5, 8)))) = Signed(SubSeq(cval, 5, 8))
        /\ cpc = "parsed" => cres = [v |-> cval, err |-> "nil"]

C13_Witness ==
    /\ cpc = "parsed"
    /\ cval = <<0, 0, 0, 1, 0, 0, 0, 0>>
    /\ cbuf = <<207, 0, 0, 0, 1, 0, 0, 0, 0>>
    /\ cres.v = cval

(***************************************************************************)
(* SpecExt: an extension token written by any MessagePack encoder, in any  *)
(* of the eight extension forms, arrives and is unpacked.                  *)
(***************************************************************************)
Unknown_Tag(x) == x.s[1]
Unknown_Data(x) == Tail(x.s)

ExtTags == {0, 3, 5, 127, 128, 255}
ExtData(n) == [i \in 1..n |-> (7 * i) % 256]

ExtTokens ==
    [form : {mpFixExt1}, tag : ExtTags, len : {1}]
    \cup [form : {mpFixExt2}, tag : ExtTags, len : {2}]
    \cup [form : {mpFixExt4}, tag : ExtTags, len : {4}]
    \cup [form : {mpFixExt8}, tag : ExtTags, len : {8}]
    \cup [form : {mpFixExt16}, tag : ExtTags, len : {16}]
    \cup [form : {mpExt8}, tag : ExtTags, len : {0, 1, 3, 16, 255}]
    \cup [form : {mpExt16}, tag : ExtTags, len : {0, 2, 256}]
    \cup [form : {mpExt32}, tag : ExtTags, len : {0, 4, 300}]

ExtBytes(t) ==
    (CASE t.form = mpExt8 -> <<mpExt8, t.len>>
       [] t.form = mpExt16 -> <<mpExt16>> \o BE(t.len, 2)
       [] t.form = mpExt32 -> <<mpExt32>> \o BE(t.len, 4)
       [] OTHER -> <<t.form>>)
    \o <<t.tag>> \o ExtData(t.len)

InitExt ==
    /\ wire \in ExtTokens
    /\ cbuf = ExtBytes(wire)
    /\ cval = NilV
    /\ cres = NoResult
    /\ cpc = "packed"
    /\ IdleColl /\ IdleOrder /\ IdleRace /\ IdlePacker /\ IdleStream

SpecExt == InitExt /\ [][DoUnpack]_vars

\* C14: unpacking a well-formed extension token whose tag is neither
\* BigIntExt nor DecimalExt returns no error, in each of the forms fixext
\* 1/2/4/8/16 and ext 8/16/32, and yields an Unknown value whose Tag() and
\* Data() are the tag and the payload on the wire.
C14_UnknownExt ==
    (cpc = "unpacked" /\ wire.tag \notin {BigIntExt, DecimalExt}) =>
        /\ cres.err = "nil"
        /\ Kind(cres.v) = "UNKNOWN"
        /\ Unknown_Tag(cres.v) = wire.tag
        /\ Unknown_Data(cres.v) = ExtData(wire.len)

C14_Witness ==
    /\ cpc = "unpacked"
    /\ wire = [form |-> mpExt16, tag |-> 128, len |-> 256]
    /\ cres.err = "nil"
    /\ Unknown_Tag(cres.v) = 128
    /\ Len(Unknown_Data(cres.v)) = 256

(***************************************************************************)
(* SpecTrunc: the encoding of a list, map, string, binary or extension     *)
(* value arrives cut short and is unpacked.  wire is the whole encoding,   *)
(* cbuf the part that arrived (empty when nothing did).                    *)
(***************************************************************************)
TruncValues ==
    {SolidList(<<ValCell(Long(1)), ValCell(Long(300))>>),
     SolidList(<<ValCell(Utf8(<<97, 98>>)), ValCell(NullV)>>),
     SolidList(<<ValCell(SolidList(<<ValCell(Long(1))>>)), ValCell(Long(2))>>),
     MapOf(<<Entry(<<97>>, Long(1)), Entry(<<98>>, Long(300))>>),
     MapOf(<<Entry(<<97>>, SolidList(<<ValCell(Long(1))>>))>>),
     SortedSparseList(<<Item(5, Long(1)), Item(7, Utf8(<<97>>))>>),
     Utf8(<<97, 98, 99>>), Utf8(Str32),
     Raw(<<1, 2, 3>>),
     Unknown(<<5, 1, 2, 3, 4>>), Unknown(<<5, 1, 2, 3>>),
     BigInt(-300)}

Prefixes(b) == {SubSeq(b, 1, n) : n \in 0..(Len(b) - 1)}

InitTrunc ==
    /\ wire \in {PackValue(v) : v \in TruncValues}
    /\ cbuf \in Prefixes(wire)
    /\ cval = NilV
    /\ cres = NoResult
    /\ cpc = "packed"
    /\ IdleColl /\ IdleOrder /\ IdleRace /\ IdlePacker /\ IdleStream

SpecTrunc == InitTrunc /\ [][DoUnpack]_vars

\* C15: unpacking input that ends inside a structure (a list or map header
\* with fewer children than declared, a string, binary or extension header
\* with less payload than declared) returns an error, and that error is not
\* the io.EOF returned for empty input.
C15_TruncatedNotEOF ==
    cpc = "unpacked" =>
        IF cbuf = <<>> THEN cres.err = "EOF"
        ELSE cres.err \notin {"nil", "EOF"}

(***************************************************************************)
(* SpecStream: TestStream.  The test sends the values of sent on an        *)
(* unbuffered channel to WriteStream, which packs each into a              *)
(* bytes.Buffer, and closes the channel; once WriteStream has returned it  *)
(* starts ReadStream on the buffer and receives from its output channel    *)
(* until that is closed.  A send and the matching receive are one step.    *)
(* (The tokens ReadStream reads are whole, so the reader's Next and Read   *)
(* return what the buffer unpacker returns; doParse above is used.)        *)
(***************************************************************************)
StreamVals ==
    {Utf8(<<118>>), Long(300), SolidList(<<ValCell(Utf8(<<97>>))>>), EmptySparseList}

InitStream ==
    /\ sent \in UNION {[1..n -> StreamVals] : n \in 0..MaxStream}
    /\ sidx = 0
    /\ sbuf = <<>>
    /\ srecv = <<>>
    /\ spos = [test |-> "send", ws |-> "recv", rs |-> "idle"]
    /\ shold = [ws |-> NilV, rs |-> NilV, err |-> "none"]
    /\ IdleColl /\ IdleCodec /\ IdleOrder /\ IdleRace /\ IdlePacker

\* valueC <- m, received by val, ok := <-valueC
TestSend ==
    /\ spos.test = "send" /\ sidx < Len(sent)
    /\ spos.ws = "recv"
    /\ shold' = [shold EXCEPT !.ws = sent[sidx + 1]]
    /\ sidx' = sidx + 1
    /\ spos' = [spos EXCEPT !.ws = "pack"]
    /\ UNCHANGED <<sent, sbuf, srecv, collVars, codecVars, orderVars, raceVars, packerVars>>

\* close(valueC)
TestClose ==
    /\ spos.test = "send" /\ sidx = Len(sent)
    /\ spos' = [spos EXCEPT !.test = "closed"]
    /\ UNCHANGED <<sent, sidx, sbuf, srecv, shold, collVars, codecVars, orderVars,
                   raceVars, packerVars>>

\* val.Pack(p); the buffer's Write does not fail, so p.Error() stays nil
WriteStreamPack ==
    /\ spos.ws = "pack"
    /\ sbuf' = sbuf \o PackValue(shold.ws)
    /\ spos' = [spos EXCEPT !.ws = "recv"]
    /\ UNCHANGED <<sent, sidx, srecv, shold, collVars, codecVars, orderVars,
                   raceVars, packerVars>>

\* val, ok := <-valueC with ok false: break; return p.Error()
WriteStreamReturn ==
    /\ spos.ws = "recv" /\ spos.test # "send"
    /\ spos' = [spos EXCEPT !.ws = "returned"]
    /\ UNCHANGED <<sent, sidx, sbuf, srecv, shold, collVars, codecVars, orderVars,
                   raceVars, packerVars>>

\* go val.ReadStream(&buf, valueC)
TestStartRead ==
    /\ spos.test = "closed" /\ spos.ws = "returned"
    /\ spos' = [spos EXCEPT !.test = "recv", !.rs = "parse"]
    /\ UNCHANGED <<sent, sidx, sbuf, srecv, shold, collVars, codecVars, orderVars,
                   raceVars, packerVars>>

\* value, err := doParse(unpacker, parser) with err nil
ReadStreamParse ==
    /\ spos.rs = "parse"
    /\ doParse(sbuf, 0).err = "nil"
    /\ spos' = [spos EXCEPT !.rs = "send"]
    /\ shold' = [shold EXCEPT !.rs = doParse(sbuf, 0).v]
    /\ sbuf' = SubSeq(sbuf, doParse(sbuf, 0).off + 1, Len(sbuf))
    /\ UNCHANGED <<sent, sidx, srecv, collVars, codecVars, orderVars, raceVars, packerVars>>

\* value, err := doParse(unpacker, parser) with an error: return err, and the
\* deferred close(out) runs
ReadStreamReturn ==
    /\ spos.rs = "parse"
    /\ doParse(sbuf, 0).err # "nil"
    /\ spos' = [spos EXCEPT !.rs = "closed"]
    /\ shold' = [shold EXCEPT !.err = doParse(sbuf, 0).err]
    /\ UNCHANGED <<sent, sidx, sbuf, srecv, collVars, codecVars, orderVars,
                   raceVars, packerVars>>

\* out <- value, received by val, ok := <-valueC
ReadStreamSend ==
    /\ spos.rs = "send" /\ spos.test = "recv"
    /\ srecv' = Append(srecv, shold.rs)
    /\ spos' = [spos EXCEPT !.rs = "parse"]
    /\ UNCHANGED <<sent, sidx, sbuf, shold, collVars, codecVars, orderVars,
                   raceVars, packerVars>>

\* val, ok := <-valueC with ok false: break
TestRecvClosed ==
    /\ spos.test = "recv" /\ spos.rs = "closed"
    /\ spos' = [spos EXCEPT !.test = "done"]
    /\ UNCHANGED <<sent, sidx, sbuf, srecv, shold, collVars, codecVars, orderVars,
                   raceVars, packerVars>>

NextStream ==
    \/ TestSend
    \/ TestClose
    \/ WriteStreamPack
    \/ WriteStreamReturn
    \/ TestStartRead
    \/ ReadStreamParse
    \/ ReadStreamReturn
    \/ ReadStreamSend
    \/ TestRecvClosed

\* a goroutine that can run is run: the Go scheduler starves none
SpecStream ==
    /\ InitStream /\ [][NextStream]_vars
    /\ WF_vars(TestSend) /\ WF_vars(TestClose)
    /\ WF_vars(WriteStreamPack) /\ WF_vars(WriteStreamReturn)
    /\ WF_vars(TestStartRead)
    /\ WF_vars(ReadStreamParse) /\ WF_vars(ReadStreamReturn)
    /\ WF_vars(ReadStreamSend)
    /\ WF_vars(TestRecvClosed)

Delivered ==
    /\ Len(srecv) = Len(sent)
    /\ \A i \in 1..Len(sent) : ValueEqual(sent[i], srecv[i])

\* C16: when v1..vn are sent in order on WriteStream's channel and the
\* channel is closed, WriteStream returns, and ReadStream over the bytes
\* written delivers exactly n values equal to v1..vn in order and then
\* closes its output channel.
C16_StreamDelivers ==
    /\ <>(spos.ws = "returned")
    /\ <>[](spos.rs = "closed" /\ Delivered)

(***************************************************************************)
(* SpecCopy: Unpack(buf, copy), after which the caller overwrites a byte   *)
(* of buf.  A byte slice the returned value holds is either its own array  *)
(* or a window of buf; win is that window (len 0: none), and the value     *)
(* reads its bytes through it.                                             *)
(***************************************************************************)
NoWindow == [off |-> 0, len |-> 0]

\* the window of buf that the bytes of the value doParse returns are a slice
\* of: Next returns b[:n] of buf itself, Read returns a copy when p.copy
Aliased(buf, copy) ==
    LET nx == UnpackerNext(buf, 0)
    IN CASE nx.format = "FixExtToken" /\ doParse(buf, 0).v.k = "unknown" ->
                [off |-> 1, len |-> Len(nx.header) - 1]
         [] nx.format = "ExtHeader" /\ doParse(buf, 0).v.k = "unknown" /\ ~copy ->
                [off |-> nx.off, len |-> ParseExt(nx.header).len + 1]
         [] nx.format = "BinHeader" /\ doParse(buf, 0).err = "nil" /\ ~copy ->
                [off |-> nx.off, len |-> ParseBin(nx.header)]
         [] OTHER -> NoWindow

\* what the value v shows when its bytes are the window win of buf
Through(v, win, buf) ==
    IF win.len = 0 THEN v
    ELSE [v EXCEPT !.s = SubSeq(buf, win.off + 1, win.off + win.len)]

CopyInputs ==
    {PackValue(Raw(<<1, 2>>)), PackValue(Utf8(<<97, 98>>)), PackValue(Long(300)),
     PackValue(BigInt(-300)),
     ExtBytes([form |-> mpFixExt1, tag |-> 5, len |-> 1]),
     ExtBytes([form |-> mpFixExt2, tag |-> 5, len |-> 2]),
     ExtBytes([form |-> mpFixExt4, tag |-> 5, len |-> 4]),
     ExtBytes([form |-> mpExt8, tag |-> 5, len |-> 3]),
     ExtBytes([form |-> mpExt16, tag |-> 5, len |-> 2]),
     ExtBytes([form |-> mpExt32, tag |-> 5, len |-> 2])}

InitCopy ==
    /\ wire \in [copy : BOOLEAN, bytes : CopyInputs]
    /\ cbuf = wire.bytes
    /\ cval = NilV
    /\ cres = NoResult
    /\ cpc = "packed"
    /\ IdleColl /\ IdleOrder /\ IdleRace /\ IdlePacker /\ IdleStream

\* c, err := Unpack(buf, copy); cval keeps what c showed when it was returned
DoUnpackCopy ==
    /\ cpc = "packed"
    /\ cres' = [v |-> Unpack(cbuf).v, err |-> Unpack(cbuf).err,
                win |-> Aliased(cbuf, wire.copy)]
    /\ cval' = Unpack(cbuf).v
    /\ cpc' = "unpacked"
    /\ UNCHANGED <<cbuf, wire, collVars, orderVars, raceVars, packerVars, streamVars>>

\* buf[i] = x
Overwrite ==
    /\ cpc = "unpacked"
    /\ \E i \in 1..Len(cbuf), x \in {0, 255} :
        /\ cbuf' = [cbuf EXCEPT ![i] = x]
        /\ cres' = [cres EXCEPT !.v = Through(cres.v, cres.win, cbuf')]
    /\ cpc' = "overwritten"
    /\ UNCHANGED <<cval, wire, collVars, orderVars, raceVars, packerVars, streamVars>>

NextCopy == DoUnpackCopy \/ Overwrite

SpecCopy == InitCopy /\ [][NextCopy]_vars

\* C17: a value returned by Unpack(buf, true) is unaffected by a later
\* modification of buf: the bytes of a Raw value and the tag and data of an
\* Unknown value, in the fixext and in the ext 8/16/32 forms, are copies.
C17_CopyUnaffected ==
    (cpc = "overwritten" /\ wire.copy) => cres.v = cval

(***************************************************************************)
(* SpecEqual: two values are compared with Equal and hashed.  (The digest  *)
(* Hash returns is h.Sum over the data it returns, so it is determined by  *)
(* the data; the model keeps the data.)                                    *)
(***************************************************************************)
Hash(val) == [data |-> Pack(val).b, err |-> Pack(val).err]

EqualVals ==
    {NilV, NullV, Boolean(TRUE), Boolean(FALSE),
     Long(0), Long(1), Long(300), Double(Bits1_5), Double(BitsNaN),
     BigInt(0), BigInt(1), BigInt(-300),
     Utf8(<<97>>), Raw(<<97>>), Unknown(<<5, 1>>),
     EmptyList, EmptySparseList, EmptyMap,
     SolidList(<<ValCell(Long(1))>>), SolidList(<<ValCell(Double(Bits1_5))>>),
     SolidList(<<ValCell(NilV)>>), SolidList(<<ValCell(NullV)>>),
     SortedSparseList(<<Item(0, Long(1))>>), SortedSparseList(<<Item(5, Long(1))>>),
     SortedSparseList(<<Item(5, Long(1)), Item(5, Long(1))>>),
     MapOf(<<Entry(<<97>>, Long(1))>>), MapOf(<<Entry(<<97>>, BigInt(1))>>),
     MapOf(<<Entry(<<97>>, Long(1)), Entry(<<98>>, Long(0))>>)}

InitEqual ==
    /\ cval \in EqualVals \X EqualVals
    /\ cbuf = <<>>
    /\ cres = NoResult
    /\ cpc = "pair"
    /\ wire = <<>>
    /\ IdleColl /\ IdleOrder /\ IdleRace /\ IdlePacker /\ IdleStream

\* Equal(a, b); Hash(a, h); Hash(b, h)
DoHashPair ==
    /\ cpc = "pair"
    /\ cres' = [eq |-> Equal(cval[1], cval[2]), a |-> Hash(cval[1]), b |-> Hash(cval[2])]
    /\ cpc' = "hashed"
    /\ UNCHANGED <<cval, cbuf, wire, collVars, orderVars, raceVars, packerVars, streamVars>>

\* a.Equal(b) of a sparse list a indexes other[i] for every item of a: the
\* call panics with an index out of range when b has fewer items than a and
\* the items b has are equal to those of a
EqualPanics(a, b) ==
    /\ a # NilV /\ a.k = "sparse"
    /\ b # NilV /\ Kind(b) = "LIST"
    /\ ListLen(a) = ListLen(b)
    /\ Len(Items(b)) < Len(a.items)
    /\ \A p \in 1..Len(Items(b)) :
         /\ a.items[p].ikey = Items(b)[p].ikey
         /\ Equal(a.items[p].value, Items(b)[p].value)

\* how the call Equal(a, b) ends
Outcome(a, b) ==
    IF EqualPanics(a, b) THEN "panic" ELSE IF Equal(a, b) THEN "true" ELSE "false"

\* x := Equal(a, b); y := Equal(b, a), each call returning or panicking
DoEqualBoth ==
    /\ cpc = "pair"
    /\ cres' = [eq |-> Outcome(cval[1], cval[2]), rev |-> Outcome(cval[2], cval[1])]
    /\ cpc' = "compared"
    /\ UNCHANGED <<cval, cbuf, wire, collVars, orderVars, raceVars, packerVars, streamVars>>

NextEqual == DoHashPair \/ DoEqualBoth

SpecEqual == InitEqual /\ [][NextEqual]_vars

\* C18: for any two values a and b with Equal(a, b) true, Pack(a) and Pack(b)
\* are the same bytes, and so Hash returns the same data (and digest) for both.
C18_EqualSameBytes ==
    (cpc = "hashed" /\ cres.eq) => cres.a = cres.b

(***************************************************************************)
(* SpecArith: Add and Subtract of two Numbers.  The finite doubles of the  *)
(* model are the multiples of one half.                                    *)
(***************************************************************************)
Nan == Double(BitsNaN)

\* n.Add(other) of each sub-type of the receiver
Add(n, other) ==
    CASE n.k = "long" -> Long(n.n + NumLong(other))
      [] n.k = "double" ->
           IF IsNaN(n.s) \/ IsNaN(NumDouble(other)) THEN Nan
           ELSE Double(DoubleOf(HalvesOf(n.s) + HalvesOf(NumDouble(other))))
      [] n.k = "bigint" -> BigInt(n.n + NumBigInt(other))

\* n.Subtract(other)
Subtract(n, other) ==
    CASE n.k = "long" -> Long(n.n - NumLong(other))
      [] n.k = "double" ->
           IF IsNaN(n.s) \/ IsNaN(NumDouble(other)) THEN Nan
           ELSE Double(DoubleOf(HalvesOf(n.s) - HalvesOf(NumDouble(other))))
      [] n.k = "bigint" -> BigInt(n.n - NumBigInt(other))

NumVals ==
    {Long(0), Long(1), Long(3), Long(-300), Double(Bits1_5), Double(DoubleOf(-7)),
     Double(DoubleOf(0)), Nan, BigInt(0), BigInt(3), BigInt(-300)}

InitArith ==
    /\ cval \in NumVals \X NumVals
    /\ cbuf = <<>>
    /\ cres = NoResult
    /\ cpc = "numbers"
    /\ wire = <<>>
    /\ IdleColl /\ IdleOrder /\ IdleRace /\ IdlePacker /\ IdleStream

\* c := a.Add(b)
DoAdd ==
    /\ cpc = "numbers"
    /\ cres' = [v |-> Add(cval[1], cval[2]), err |-> "nil"]
    /\ cpc' = "added"
    /\ UNCHANGED <<cval, cbuf, wire, collVars, orderVars, raceVars, packerVars, streamVars>>

\* c := a.Subtract(b)
DoSubtract ==
    /\ cpc = "numbers"
    /\ cres' = [v |-> Subtract(cval[1], cval[2]), err |-> "nil"]
    /\ cpc' = "subtracted"
    /\ UNCHANGED <<cval, cbuf, wire, collVars, orderVars, raceVars, packerVars, streamVars>>

NextArith == DoAdd \/ DoSubtract

SpecArith == InitArith /\ [][NextArith]_vars

IsNaNDouble(v) == v.k = "double" /\ IsNaN(v.s)

\* C19: for Numbers a and b of any sub-types, when a or b is a NaN double,
\* a.Add(b) and a.Subtract(b) are NaN doubles.
C19_NaNPropagates ==
    (cpc \in {"added", "subtracted"} /\ (IsNaNDouble(cval[1]) \/ IsNaNDouble(cval[2]))) =>
        IsNaNDouble(cres.v)

\* C20: for a NaN double n and every value x, n.Equal(x) is false and
\* x.Equal(n) is false.
C20_NaNNeverEqual ==
    (cpc = "hashed" /\ (IsNaNDouble(cval[1]) \/ IsNaNDouble(cval[2]))) => ~cres.eq

(***************************************************************************)
(* SpecEntry: a map entry or list item, mutable or immutable, is updated   *)
(* by updaters one after another.                                          *)
(***************************************************************************)
\* the updaters of the model: Updater.Update(old) returns nil, Null, a fixed
\* value, the old value, or the negation of a boolean
Updaters == {"nil", "null", "seven", "same", "not"}
Updater_Update(updater, old) ==
    CASE updater = "nil" -> NilV
      [] updater = "null" -> NullV
      [] updater = "seven" -> Long(7)
      [] updater = "same" -> old
      [] updater = "not" -> IF old # NilV /\ old.k = "bool" THEN Boolean(old.n = 0) ELSE old

\* t.Update(updater) that stores what the updater returns, nil included
MapEntry_Update_keepNil(t, updater) ==
    IF t.mutable
    THEN [t |-> [t EXCEPT !.value = Updater_Update(updater, t.value)], ret |-> TRUE]
    ELSE [t |-> t, ret |-> FALSE]

\* mutableMapEntry.Update and immutableMapEntry.Update: the entry after the
\* call and the result
MapEntry_Update(t, updater) ==
    IF t.mutable
    THEN LET newValue == Updater_Update(updater, t.value)
         IN [t |-> [t EXCEPT !.value = IF newValue = NilV THEN NullV ELSE newValue],
             ret |-> TRUE]
    ELSE [t |-> t, ret |-> FALSE]

\* mutableListItem.Update and immutableListItem.Update
ListItem_Update(t, updater) ==
    IF t.mutable
    THEN LET newValue == Updater_Update(updater, t.value)
         IN [t |-> [t EXCEPT !.value = IF newValue = NilV THEN NullV ELSE newValue],
             ret |-> TRUE]
    ELSE [t |-> t, ret |-> FALSE]

EntryVals == {NilV, NullV, Boolean(TRUE), Long(1), Utf8(<<97>>)}
\* MutableEntry, ImmutableEntry, MutableItem and ImmutableItem
Entries ==
    [ent : {"entry"}, mutable : BOOLEAN, key : {<<97>>, <<>>}, value : EntryVals]
    \cup [ent : {"item"}, mutable : BOOLEAN, key : {0, 5}, value : EntryVals]

InitEntry ==
    /\ cval \in Entries
    /\ cbuf = <<>>
    /\ cres = NoResult
    /\ cpc = "entry"
    /\ wire = <<>>
    /\ IdleColl /\ IdleOrder /\ IdleRace /\ IdlePacker /\ IdleStream

\* ok := e.Update(updater)
DoUpdate ==
    /\ cpc \in {"entry", "updated"}
    /\ \E updater \in Updaters :
         LET r == IF cval.ent = "entry" THEN MapEntry_Update(cval, updater)
                  ELSE ListItem_Update(cval, updater)
         IN /\ cval' = r.t
            /\ cres' = [ret |-> r.ret, before |-> cval, updater |-> updater]
    /\ cpc' = "updated"
    /\ UNCHANGED <<cbuf, wire, collVars, orderVars, raceVars, packerVars, streamVars>>

SpecEntry == InitEntry /\ [][DoUpdate]_vars

\* C21: Update on an immutable map entry or list item returns false and leaves
\* Key() and Value() unchanged; Update on a mutable one replaces the value by
\* the updater's result (Null when the updater returns nil), returns true and
\* leaves Key() unchanged.
C21_UpdateEntry ==
    cpc = "updated" =>
        LET new == Updater_Update(cres.updater, cres.before.value)
        IN /\ cval.key = cres.before.key
           /\ ~cres.before.mutable => (~cres.ret /\ cval.value = cres.before.value)
           /\ cres.before.mutable =>
                (cres.ret /\ cval.value = (IF new = NilV THEN NullV ELSE new))

C21_Witness ==
    /\ cpc = "updated" /\ cres.before.mutable /\ cres.updater = "nil"
    /\ cres.before.value = Long(1) /\ cval.value = NullV /\ cres.ret

\* the position of the first key of the wire map that is neither nil nor a
\* Number (0 when there is none)
FirstNonNumber(keys) ==
    IF \E p \in 1..Len(keys) : keys[p] # NilV /\ ~IsNumber(keys[p])
    THEN CHOOSE p \in 1..Len(keys) :
             /\ keys[p] # NilV /\ ~IsNumber(keys[p])
             /\ \A q \in 1..(p - 1) : keys[q] = NilV \/ IsNumber(keys[q])
    ELSE 0

\* the map holds an entry with this key and value
HasEntry(m, skey, value) ==
    \E p \in 1..Len(m.items) :
        ~m.items[p].isnil /\ m.items[p].skey = skey /\ m.items[p].value = value

\* C22: decoding a wire map whose first key is a Number and in which a later
\* key is not a Number succeeds and yields a value of kind MAP that contains
\* every entry of the wire map, the entries before the first non-Number key
\* stored under the decimal string form of their integer key.
C22_MixedKeysMap ==
    (cpc = "unpacked" /\ Len(wire) >= 2 /\ IsNumber(wire[1]) /\ FirstNonNumber(wire) > 1) =>
        /\ cres.err = "nil"
        /\ cres.v # NilV /\ Kind(cres.v) = "MAP"
        /\ \A p \in 1..Len(wire) :
             wire[p] # NilV =>
                 HasEntry(cres.v,
                          IF p < FirstNonNumber(wire) THEN Itoa(NumLong(wire[p]))
                          ELSE String(wire[p]),
                          Long(p))

\* the positions of the wire map whose key is not nil
NonNullKeys(keys) == {p \in 1..Len(keys) : keys[p] # NilV}

\* C23: decoding a wire map in which some entry has a Null key (at the first
\* or any later position) succeeds, and the resulting list or map contains
\* exactly the entries whose key is not Null: the skipped entry contributes no
\* item and no entry, and leaves no empty slot in the result.
C23_NullKeySkipped ==
    (cpc = "unpacked" /\ \E p \in 1..Len(wire) : wire[p] = NilV) =>
        /\ cres.err = "nil"
        /\ cres.v # NilV /\ cres.v.k \in {"sparse", "map"}
        /\ Len(cres.v.items) = Cardinality(NonNullKeys(wire))
        /\ \A q \in 1..Len(cres.v.items) : ~cres.v.items[q].isnil
        /\ \A p \in NonNullKeys(wire) :
             \E q \in 1..Len(cres.v.items) :
                /\ cres.v.items[q].value = Long(p)
                /\ cres.v.k = "sparse" => cres.v.items[q].ikey = NumLong(wire[p])
                /\ cres.v.k = "map" =>
                       \/ cres.v.items[q].skey = String(wire[p])
                       \/ IsNumber(wire[p]) /\ cres.v.items[q].skey = Itoa(NumLong(wire[p]))

(***************************************************************************)
(* SpecHeader: PackList(n) or PackMap(n) writes a header into a buffer,    *)
(* an unpacker over the buffer takes the header with Next, and the parser  *)
(* reads the count from it.  Counts are the ints up to 2^31 - 1.           *)
(***************************************************************************)
HeaderCounts ==
    (0..20) \cup (250..260) \cup (65530..65540) \cup {16777216, 2147483647}

InitHeader ==
    /\ cval \in [coll : {"list", "map"}, n : HeaderCounts]
    /\ cbuf = <<>>
    /\ cres = NoResult
    /\ cpc = "count"
    /\ wire = <<>>
    /\ IdleColl /\ IdleOrder /\ IdleRace /\ IdlePacker /\ IdleStream

\* p.PackList(n) or p.PackMap(n) on a packer over an empty buffer
PackHeader ==
    /\ cpc = "count"
    /\ cbuf' = IF cval.coll = "list" THEN WriteArrayHeader(cval.n)
               ELSE WriteMapHeader(cval.n)
    /\ cpc' = "packed header"
    /\ UNCHANGED <<cval, cres, wire, collVars, orderVars, raceVars, packerVars, streamVars>>

\* format, header := unpacker.Next()
NextHeader ==
    /\ cpc = "packed header"
    /\ cres' = UnpackerNext(cbuf, 0)
    /\ cpc' = "header"
    /\ UNCHANGED <<cval, cbuf, wire, collVars, orderVars, raceVars, packerVars, streamVars>>

\* cnt := parser.ParseList(header) or parser.ParseMap(header)
ParseHeader ==
    /\ cpc = "header"
    /\ cres.format \in {"ListHeader", "MapHeader"}
    /\ cres' = [format |-> cres.format, header |-> cres.header, off |-> cres.off,
                cnt |-> IF cres.format = "ListHeader" THEN ParseList(cres.header)
                        ELSE ParseMap(cres.header)]
    /\ cpc' = "count parsed"
    /\ UNCHANGED <<cval, cbuf, wire, collVars, orderVars, raceVars, packerVars, streamVars>>

NextHeaderSpec == PackHeader \/ NextHeader \/ ParseHeader

SpecHeader == InitHeader /\ [][NextHeaderSpec]_vars

\* C24: for every count n, the header written by PackList(n) uses fixarray for
\* n < 16, array16 for n <= 65535 and array32 otherwise, the header written by
\* PackMap(n) uses fixmap, map16 and map32 in the same way, and Next followed
\* by ParseList or ParseMap on the emitted header returns n.
C24_HeaderRoundTrip ==
    /\ cpc # "count" =>
         LET fix == IF cval.coll = "list" THEN mpFixArrayPrefix ELSE mpFixMapPrefix
             c16 == IF cval.coll = "list" THEN mpArray16 ELSE mpMap16
             c32 == IF cval.coll = "list" THEN mpArray32 ELSE mpMap32
         IN cbuf = IF cval.n < 16 THEN <<fix + cval.n>>
                   ELSE IF cval.n <= 65535 THEN <<c16>> \o BE(cval.n, 2)
                   ELSE <<c32>> \o BE(cval.n, 4)
    /\ cpc \in {"header", "count parsed"} =>
         /\ cres.format = (IF cval.coll = "list" THEN "ListHeader" ELSE "MapHeader")
         /\ cres.header = cbuf
    /\ cpc = "count parsed" => cres.cnt = cval.n

(***************************************************************************)
(* SpecNext: Next is called again and again on an in-memory unpacker over  *)
(* a buffer that holds headers of every form, whole or cut short.          *)
(***************************************************************************)
HeaderChunks ==
    {<<1>>, <<129>>, <<145>>, <<161>>, <<mpNil>>, <<mpTrue>>, <<255>>,
     <<mpBin8, 2>>, <<mpExt8, 1>>, <<mpUint16, 1, 0>>, <<mpStr16, 0, 1>>,
     <<mpArray32, 0, 0, 0, 1>>, <<mpFloat32, 63, 192, 0, 0>>,
     <<mpFixExt1, 5, 1>>, <<mpFixExt4, 5, 1, 2, 3, 4>>,
     <<mpUint64>> \o Fill(8, 0), <<mpFixExt16, 5>> \o Fill(16, 0)}

InitNext ==
    /\ \E c1 \in HeaderChunks, c2 \in HeaderChunks :
         cbuf \in Prefixes(c1 \o c2) \cup {c1 \o c2}
    /\ cval = [off |-> 0]
    /\ cres = NoResult
    /\ cpc = "unpacker"
    /\ wire = <<>>
    /\ IdleColl /\ IdleOrder /\ IdleRace /\ IdlePacker /\ IdleStream

\* format, header := p.Next() on the unpacker p with p.buf = cbuf, p.off = cval.off
DoNext ==
    /\ LET nx == UnpackerNext(cbuf, cval.off)
       IN /\ cval' = [off |-> nx.off]
          /\ cres' = [format |-> nx.format, header |-> nx.header, before |-> cval.off]
    /\ cpc' = "next"
    /\ UNCHANGED <<cbuf, wire, collVars, orderVars, raceVars, packerVars, streamVars>>

SpecNext == InitNext /\ [][DoNext]_vars

\* the length of the header that starts with this byte, by the MessagePack
\* forms: the byte itself, the bytes of a length field or of a number, and
\* for the fixed extensions the tag and the data
HeaderLength(code) ==
    CASE code \in {mpBin8, mpExt8, mpUint8, mpInt8, mpStr8} -> 2
      [] code \in {mpBin16, mpExt16, mpUint16, mpInt16, mpStr16, mpArray16, mpMap16} -> 3
      [] code \in {mpBin32, mpExt32, mpUint32, mpInt32, mpStr32, mpArray32, mpMap32,
                   mpFloat32} -> 5
      [] code \in {mpFloat64, mpUint64, mpInt64} -> 9
      [] code = mpFixExt1 -> 3
      [] code = mpFixExt2 -> 4
      [] code = mpFixExt4 -> 6
      [] code = mpFixExt8 -> 10
      [] code = mpFixExt16 -> 18
      [] OTHER -> 1

\* C25: Next() returns EOF exactly when no bytes remain, UnexpectedEOF exactly
\* when at least one byte remains but fewer than the header length implied by
\* the leading byte, in both cases leaving the read offset unchanged; in every
\* other case it advances the offset by the header length and returns that
\* header.
C25_NextOffsets ==
    cpc = "next" =>
        LET remaining == Len(cbuf) - cres.before
            n == HeaderLength(cbuf[cres.before + 1])
        IN /\ cres.format = "EOF" <=> remaining = 0
           /\ cres.format = "UnexpectedEOF" <=> (remaining >= 1 /\ remaining < n)
           /\ cres.format \in {"EOF", "UnexpectedEOF"} => cval.off = cres.before
           /\ cres.format \notin {"EOF", "UnexpectedEOF"} =>
                /\ cval.off = cres.before + n
                /\ cres.header = SubSeq(cbuf, cres.before + 1, cres.before + n)

C25_Witness ==
    /\ cpc = "next" /\ cres.before = 5 /\ cres.format = "UnexpectedEOF"
    /\ cval.off = 5 /\ Len(cbuf) = 7 /\ cbuf[6] = mpUint16

\* the entries with (same = TRUE) or without (same = FALSE) the key, in order
RECURSIVE EntriesOf(_, _, _)
EntriesOf(cells, key, same) ==
    IF cells = <<>> THEN <<>>
    ELSE IF (Head(cells).skey = key) = same
    THEN <<Head(cells)>> \o EntriesOf(Tail(cells), key, same)
    ELSE EntriesOf(Tail(cells), key, same)

\* C26: in SpecMapChain, for a map that holds m >= 1 entries with key k
\* (duplicates created by Insert or InsertAll), Remove(k) returns a map with
\* exactly m-1 entries with key k and every entry of other keys unchanged, so
\* Get(k) still finds a value when m > 1; Remove of a key that is not present
\* returns a map equal to the receiver.
C26_RemoveOne ==
    [][lastOp' = "Remove" =>
         LET k == lastArg'
             old == View(heap, regs[1])
             new == View(heap', regs'[1])
             m == Len(EntriesOf(old, k, TRUE))
         IN /\ m = 0 => new = old
            /\ m >= 1 =>
                 /\ Len(EntriesOf(new, k, TRUE)) = m - 1
                 /\ \E p \in 1..m :
                      EntriesOf(new, k, TRUE)
                        = SubSeq(EntriesOf(old, k, TRUE), 1, p - 1)
                            \o SubSeq(EntriesOf(old, k, TRUE), p + 1, m)
                 /\ EntriesOf(new, k, FALSE) = EntriesOf(old, k, FALSE)
                 /\ Map_Len(regs'[1]) = Map_Len(regs[1]) - 1
            /\ m > 1 => Map_Get(heap', regs'[1], k).ok
            /\ m = 1 => ~Map_Get(heap', regs'[1], k).ok]_vars

C26_Witness ==
    /\ regs[1].kind = "map"
    /\ lastOp = "Remove"
    /\ lastArg = <<97, 98>>
    /\ SKeysOf(heap, regs[1]) = << <<97>>, <<97, 98>> >>
    /\ Map_Get(heap, regs[1], <<97, 98>>).ok

\* what the calls return for the list held in register 1
InsertAtResult(i, v, sp) ==
    LET r == Solid_InsertAt(heap, regs[1], i, v, sp)
    IN  Elems(r.h, r.t)
AppendResult(v, sp) ==
    LET r == Solid_Append(heap, regs[1], v, sp)
    IN  Elems(r.h, r.t)
RemoveAtResult(i, sp) ==
    LET r == Solid_RemoveAt(heap, regs[1], i, sp)
    IN  Elems(r.h, r.t)

\* the list a with c put in before position i, and with position i taken out
InsertedAt(a, i, c) == SubSeq(a, 1, i) \o <<c>> \o SubSeq(a, i + 1, Len(a))
RemovedAt(a, i) == SubSeq(a, 1, i) \o SubSeq(a, i + 2, Len(a))

\* C27: in SpecSolidChain, for a solid list of length n whose results are used
\* one after another: InsertAt(i, v) with 0 <= i < n returns a list of length
\* n+1 with v at position i, the elements before i unchanged and each element
\* formerly at j >= i now at j+1 (including i = n-1); InsertAt with i >= n
\* equals Append(v); RemoveAt(i) with 0 <= i < n returns a list of length n-1
\* with the elements after i shifted left by one; RemoveAt with i outside
\* 0..n-1 and InsertAt with i < 0 return a list equal to the receiver.
C27_InsertRemoveShift ==
    /\ [](regs[1].kind = "solid" =>
            \A i \in -1..(MaxLen + 1), sp \in Spares :
                LET a == View(heap, regs[1])
                    n == Len(a)
                IN /\ \A v \in ElemVals :
                        InsertAtResult(i, v, sp) =
                            (IF i < 0 THEN a
                             ELSE IF i < n THEN InsertedAt(a, i, ValCell(v))
                             ELSE AppendResult(v, sp))
                   /\ \A v \in ElemVals : AppendResult(v, sp) = a \o <<ValCell(v)>>
                   /\ RemoveAtResult(i, sp) =
                          (IF i >= 0 /\ i < n THEN RemovedAt(a, i) ELSE a))
    /\ [][(lastOp' = "InsertAt" /\ lastArg' >= 0 /\ lastArg' < regs[1].len) =>
            \E v \in ElemVals :
                View(heap', regs'[1]) = InsertedAt(View(heap, regs[1]), lastArg', ValCell(v))]_vars
    /\ [][lastOp' = "RemoveAt" =>
            View(heap', regs'[1]) =
                (IF lastArg' >= 0 /\ lastArg' < regs[1].len
                 THEN RemovedAt(View(heap, regs[1]), lastArg')
                 ELSE View(heap, regs[1]))]_vars

C27_Witness ==
    /\ regs[1].kind = "solid"
    /\ lastOp = "InsertAt"
    /\ lastArg = 1
    /\ View(heap, regs[1]) = <<ValCell(Long(1)), ValCell(Long(2)), ValCell(Long(1))>>

\* C28: ReadStream over a byte source that holds zero or more complete encoded
\* values and then ends at a value boundary delivers those values and reports
\* normal termination, that is, it returns no error (nil).  (The sources of
\* SpecStream are the bytes WriteStream wrote: whole values only.)
C28_StreamEndsNil ==
    spos.rs = "closed" => (Len(srecv) = Len(sent) /\ shold.err = "nil")

\* C29: Equal is symmetric: for all values a and b (Go nil, Null, numbers of
\* different sub-types, a solid and a sparse list with the same Len, lists or
\* maps with duplicate keys included), Equal(a, b) and Equal(b, a) return the
\* same result, and neither call panics with an index out of range.
C29_EqualSymmetric ==
    cpc = "compared" =>
        /\ cres.eq # "panic" /\ cres.rev # "panic"
        /\ cres.eq = cres.rev

\* Pack of a sparse list or map calls Key() and Value() on every item or
\* entry of the array, and panics on a nil one
PackPanics(v) ==
    /\ v # NilV /\ v.k \in {"sparse", "map"}
    /\ \E p \in 1..Len(v.items) : v.items[p].isnil

\* C30: Unpack(buf, copy) on any byte sequence returns either a value or an
\* error and never panics, and every List or Map it returns can then be passed
\* to Len, Values, Items, Entries, Equal and Pack without a panic; this covers
\* map headers whose keys are of mixed kinds or Null.
C30_UnpackNeverPanics ==
    cpc = "unpacked" =>
        /\ cres.err # "panic"
        /\ cres.err = "nil" => ~PackPanics(cres.v)

====
